---- MODULE Spec2Model ----
(***************************************************************************)
(* Model of gh-ccimg: the guarded image download pipeline                  *)
(* (download.Fetcher), the content-type validator and the storage          *)
(* backends (storage.DiskStorage, storage.MemoryStorage).                  *)
(*                                                                         *)
(* Go strings are modelled as sequences of one-character strings, byte     *)
(* slices as sequences of numbers, durations in milliseconds.              *)
(***************************************************************************)
EXTENDS Integers, Sequences, FiniteSets, TLC

\* ---------------------------------------------------------------- bounds
MaxUrls == 2
MaxConcurrency == 2
MaxSizeBound == 2
MaxStores == 2

\* ------------------------------------------------------ program constants
DefaultMaxRetries == 3
DefaultBaseDelay == 500
MaxDelay == 10000
StatusOK == 200

\* ------------------------------------------------------- string literals
S_retry1 == <<"c","o","n","n","e","c","t","i","o","n"," ","r","e","f","u","s","e","d">>
S_retry2 == <<"c","o","n","n","e","c","t","i","o","n"," ","r","e","s","e","t">>
S_retry3 == <<"t","i","m","e","o","u","t">>
S_retry4 == <<"t","e","m","p","o","r","a","r","y"," ","f","a","i","l","u","r","e">>
S_retry5 == <<"n","e","t","w","o","r","k"," ","i","s"," ","u","n","r","e","a","c","h","a","b","l","e">>
S_retry6 == <<"n","o"," ","s","u","c","h"," ","h","o","s","t">>
S_retry7 == <<"i","/","o"," ","t","i","m","e","o","u","t">>
T_png == <<"i","m","a","g","e","/","p","n","g">>
T_jpeg == <<"i","m","a","g","e","/","j","p","e","g">>
T_jpg == <<"i","m","a","g","e","/","j","p","g">>
T_gif == <<"i","m","a","g","e","/","g","i","f">>
T_webp == <<"i","m","a","g","e","/","w","e","b","p">>
T_svg == <<"i","m","a","g","e","/","s","v","g","+","x","m","l">>
T_bmp == <<"i","m","a","g","e","/","b","m","p">>
T_tiff == <<"i","m","a","g","e","/","t","i","f","f">>
T_xicon == <<"i","m","a","g","e","/","x","-","i","c","o","n">>
T_msicon == <<"i","m","a","g","e","/","v","n","d",".","m","i","c","r","o","s","o","f","t",".","i","c","o","n">>
H_pngUpperCharset == <<"I","M","A","G","E","/","P","N","G",";"," ","c","h","a","r","s","e","t","=","u","t","f","-","8">>
H_html == <<"t","e","x","t","/","h","t","m","l">>
H_gifSpaces == <<" ","i","m","a","g","e","/","g","i","f"," ">>
H_semiFirst == <<";","i","m","a","g","e","/","p","n","g">>
E_refused == <<"d","i","a","l"," ","t","c","p",":"," ","c","o","n","n","e","c","t","i","o","n"," ","r","e","f","u","s","e","d">>
E_clientTimeout == <<"C","l","i","e","n","t",".","T","i","m","e","o","u","t"," ","e","x","c","e","e","d","e","d">>
E_canceled == <<"c","o","n","t","e","x","t"," ","c","a","n","c","e","l","e","d">>
E_scheme == <<"u","n","s","u","p","p","o","r","t","e","d"," ","p","r","o","t","o","c","o","l"," ","s","c","h","e","m","e">>
E_eof == <<"u","n","e","x","p","e","c","t","e","d"," ","E","O","F">>
E_Get == <<"G","e","t"," ","\"">>
E_GetEnd == <<"\"",":"," ">>
U_a == <<"h","t","t","p",":","/","/","h","/","a",".","p","n","g">>
U_b == <<"h","t","t","p",":","/","/","h","/","b">>
U_timeout == <<"h","t","t","p",":","/","/","h","/","t","i","m","e","o","u","t",".","J","P","G","?","v","=","1">>
U_bad == <<"h","t","t","p",":","/","/","h","/","%","z","z">>
T_heic == <<"i","m","a","g","e","/","h","e","i","c">>
T_plain == <<"t","e","x","t","/","p","l","a","i","n">>
P_charset == <<";"," ","c","h","a","r","s","e","t","=","u","t","f","-","8">>
U_hostOnly == <<"h","t","t","p",":","/","/","h",".","p","n","g">>
U_fragment == <<"h","t","t","p",":","/","/","h","/","a",".","g","i","f","#","t","o","p">>
U_pdf == <<"h","t","t","p",":","/","/","h","/","d","o","c",".","p","d","f">>
U_queryFragment == <<"h","t","t","p",":","/","/","h","/","p",".","j","p","e","g","?","x","=","1","#","y">>
U_noPath == <<"h","t","t","p",":","/","/","h","o","s","t">>
S_sus1 == <<"r","m"," ","-","r","f">>
S_sus2 == <<"s","u","d","o"," ">>
S_sus3 == <<"e","v","a","l","(">>
S_sus4 == <<"e","x","e","c","(">>
S_sus5 == <<"$","(">>
\* the character U+0060 (grave accent), which a TLA+ string cannot hold
Backtick == "U+0060"
S_sus6 == <<Backtick>>
P_describe == <<"d","e","s","c","r","i","b","e">>
P_rm == <<"P","l","e","a","s","e"," ","r","m"," ","-","r","f"," ","/","t","m","p">>
P_sudoUpper == <<"R","u","n"," ","S","U","D","O"," ","n","o","w">>
P_sudoLast == <<"u","s","e"," ","s","u","d","o">>
P_eval == <<"U","s","e"," ","e","v","a","l","(",")"," ","h","e","r","e">>
P_exec == <<"e","x","e","c","(","l","s",")">>
P_subst == <<"C","h","e","c","k"," ","$","(","w","h","o","a","m","i",")">>
P_backtick == <<"R","u","n"," ",Backtick,"d","a","t","e",Backtick>>
Nul == "U+0000"
P_sudoNul == <<"s","u",Nul,"d","o"," ","l","s">>
P_padded == <<" ","d","e","s","c","r","i","b","e","\n">>
I_file == <<"o","u","t","/","i","m","g","-","0","1",".","p","n","g">>

\* ------------------------------------------------- strings package helpers
Upper == <<"A","B","C","D","E","F","G","H","I","J","K","L","M","N","O","P","Q","R","S","T","U","V","W","X","Y","Z">>
Lower == <<"a","b","c","d","e","f","g","h","i","j","k","l","m","n","o","p","q","r","s","t","u","v","w","x","y","z">>

ToLowerChar(c) ==
  IF \E i \in 1..26 : Upper[i] = c
  THEN Lower[CHOOSE i \in 1..26 : Upper[i] = c]
  ELSE c

\* strings.ToLower
ToLower(s) == [i \in 1..Len(s) |-> ToLowerChar(s[i])]

\* strings.Index(s, sub): 0-based position of the first occurrence, or -1
Index(s, sub) ==
  LET hits == {i \in 0..(Len(s) - Len(sub)) : SubSeq(s, i + 1, i + Len(sub)) = sub}
  IN IF hits = {} THEN -1 ELSE CHOOSE i \in hits : \A j \in hits : i <= j

\* strings.Contains
Contains(s, sub) == Index(s, sub) >= 0

\* strings.HasPrefix
HasPrefix(s, prefix) == Len(s) >= Len(prefix) /\ SubSeq(s, 1, Len(prefix)) = prefix

IsSpace(c) == c \in {" ", "\t", "\n", "\r"}

\* strings.TrimSpace
TrimSpace(s) ==
  LET keep == {i \in 1..Len(s) : ~IsSpace(s[i])}
  IN IF keep = {} THEN <<>>
     ELSE SubSeq(s, CHOOSE i \in keep : \A j \in keep : i <= j,
                    CHOOSE i \in keep : \A j \in keep : i >= j)

\* ------------------------------------------------------------ error values
NoError == [kind |-> "nil", code |-> 0, attempts |-> 0, cause |-> <<>>]

Err(kind, code, attempts, cause) ==
  [kind |-> kind, code |-> code, attempts |-> attempts, cause |-> cause]

\* context.Canceled, the value of ctx.Err() after cancellation
CtxErr == Err("context canceled", 0, 0, <<>>)

\* ------------------------------------------------------- content validator
validTypes == {T_png, T_jpeg, T_jpg, T_gif, T_webp, T_svg, T_bmp, T_tiff, T_xicon, T_msicon}

\* mutant: the surrounding whitespace kept
StripParams_NoTrim(contentType) ==
  LET lower == ToLower(contentType)
      idx == Index(lower, <<";">>)
  IN IF idx > 0 THEN SubSeq(lower, 1, idx) ELSE lower

\* the header value lower-cased, cut at a ';' that is not the first
\* character, and trimmed
StripParams(contentType) ==
  LET lower == ToLower(contentType)
      idx == Index(lower, <<";">>)
  IN TrimSpace(IF idx > 0 THEN SubSeq(lower, 1, idx) ELSE lower)

ValidateContentType(contentType) ==
  IF contentType = <<>> THEN Err("content-type header is missing", 0, 0, <<>>)
  ELSE IF StripParams(contentType) \in validTypes THEN NoError
  ELSE Err("invalid content type for image", 0, 0, contentType)

\* ------------------------------------------------------------ the fetcher
retryableErrors == {S_retry1, S_retry2, S_retry3, S_retry4, S_retry5, S_retry6, S_retry7}

isRetryableError(err) ==
  /\ err # <<>>
  /\ \E retryable \in retryableErrors : Contains(ToLower(err), retryable)

\* mutants: 504 forgotten; every error status retried
isRetryableStatusCode_No504(statusCode) == statusCode \in {429, 500, 502, 503}
isRetryableStatusCode_AnyError(statusCode) == statusCode >= 400

isRetryableStatusCode(statusCode) == statusCode \in {429, 500, 502, 503, 504}

RECURSIVE Pow2(_)
\* 1 << attempt
Pow2(n) == IF n = 0 THEN 1 ELSE 2 * Pow2(n - 1)

\* mutant: a jitter of a full quarter of the delay
calculateBackoffDelay_Jittered(attempt) ==
  LET delay == DefaultBaseDelay * Pow2(attempt)
      jittered == delay + delay \div 4
  IN IF jittered > MaxDelay THEN MaxDelay ELSE jittered

\* mutant: a delay that grows linearly
calculateBackoffDelay_Linear(attempt) == DefaultBaseDelay * (attempt + 1)

\* delays in milliseconds; every quantity of the Go computation is a whole
\* number of milliseconds for the default base delay
calculateBackoffDelay(attempt) ==
  LET delay == DefaultBaseDelay * Pow2(attempt)
      jitter == delay \div 4
      jittered == IF jitter > 0 THEN delay + ((attempt * jitter) % jitter) ELSE delay
  IN IF jittered > MaxDelay THEN MaxDelay ELSE jittered

\* ------------------------------------------------------- storage naming
X_png == <<".","p","n","g">>
X_jpg == <<".","j","p","g">>
X_jpeg == <<".","j","p","e","g">>
X_gif == <<".","g","i","f">>
X_webp == <<".","w","e","b","p">>
X_svg == <<".","s","v","g">>
X_bmp == <<".","b","m","p">>
X_tiff == <<".","t","i","f","f">>
X_ico == <<".","i","c","o">>
X_bin == <<".","b","i","n">>
S_img == <<"i","m","g","-">>
OutputDir == <<"o","u","t">>

DigitChars == <<"0","1","2","3","4","5","6","7","8","9">>

RECURSIVE Decimal(_)
\* the decimal digits of n >= 0
Decimal(n) == IF n < 10 THEN <<DigitChars[n + 1]>>
              ELSE Decimal(n \div 10) \o <<DigitChars[(n % 10) + 1]>>

\* fmt's %02d for n >= 0
Pad2(n) == IF n < 10 THEN <<"0">> \o Decimal(n) ELSE Decimal(n)

\* mutant: numbering from the index instead of index+1
GenerateFilename_ZeroBased(index, extension) ==
  LET dotted == IF extension # <<>> /\ ~HasPrefix(extension, <<".">>)
                THEN <<".">> \o extension ELSE extension
      ext == IF dotted = <<>> THEN X_bin ELSE dotted
  IN S_img \o Pad2(index) \o ext

GenerateFilename(index, extension) ==
  LET dotted == IF extension # <<>> /\ ~HasPrefix(extension, <<".">>)
                THEN <<".">> \o extension ELSE extension
      ext == IF dotted = <<>> THEN X_bin ELSE dotted
  IN S_img \o Pad2(index + 1) \o ext

\* filepath.Ext: the suffix from the last dot of the last path element
PathExt(path) ==
  LET dots == {i \in 1..Len(path) :
                 /\ path[i] = "."
                 /\ \A j \in i..Len(path) : path[j] # "/"}
  IN IF dots = {} THEN <<>>
     ELSE SubSeq(path, CHOOSE i \in dots : \A j \in dots : i >= j, Len(path))

\* url[:idx] when sep occurs at an index idx > 0
CutAt(url, sep) ==
  LET idx == Index(url, sep) IN IF idx > 0 THEN SubSeq(url, 1, idx) ELSE url

validExtensions == {X_png, X_jpg, X_jpeg, X_gif, X_webp, X_svg, X_bmp, X_tiff, X_ico}

ExtractExtensionFromURL(url) ==
  IF url = <<>> THEN <<>>
  ELSE LET ext == ToLower(PathExt(CutAt(CutAt(url, <<"?">>), <<"#">>)))
       IN IF ext \in validExtensions THEN ext ELSE <<>>

getExtensionFromContentType(contentType) ==
  LET lower == StripParams(contentType)
  IN IF lower = T_png THEN X_png
     ELSE IF lower \in {T_jpeg, T_jpg} THEN X_jpg
     ELSE IF lower = T_gif THEN X_gif
     ELSE IF lower = T_webp THEN X_webp
     ELSE IF lower = T_svg THEN X_svg
     ELSE IF lower = T_bmp THEN X_bmp
     ELSE IF lower = T_tiff THEN X_tiff
     ELSE IF lower \in {T_xicon, T_msicon} THEN X_ico
     ELSE <<>>

DetermineExtension(contentType, url) ==
  IF contentType # <<>> /\ getExtensionFromContentType(contentType) # <<>>
  THEN getExtensionFromContentType(contentType)
  ELSE IF url # <<>> /\ ExtractExtensionFromURL(url) # <<>>
  THEN ExtractExtensionFromURL(url)
  ELSE X_bin

\* filepath.Join(dir, name) for a clean dir and a plain file name
Join(dir, name) == dir \o <<"/">> \o name

\* ------------------------------------------------------------------ state
VARIABLES
  scenario,        \* which entry point is exercised: "single", "pool", "disk", ...
  maxSize,         \* Fetcher.maxSize
  concurrency,     \* Fetcher.concurrency
  cancelled,       \* ctx.Done() is closed
  cancelledAtCall, \* ctx was already cancelled when the entry point was called
  proc,            \* per goroutine: position and locals of worker / fetchSingle
  urls,            \* argument of FetchConcurrent
  urlChan,         \* buffered channel of URLs
  urlClosed,       \* close(urlChan) has run
  resultChan,      \* buffered channel of results
  resultClosed,    \* close(resultChan) has run
  wg,              \* sync.WaitGroup counter
  results,         \* the collector's slice
  report,          \* calls received by the progress reporter, in order
  mainpc,          \* position of FetchConcurrent's own goroutine
  sent,            \* URLs pushed into urlChan so far
  spawned,         \* workers started so far
  fs,              \* files of the output directory: name -> content
  ds,              \* the DiskStorage instances: force, files and two history
                   \* fields, cleaned (Cleanup was called) and nstored (the
                   \* successful Stores so far of an instance on which Cleanup
                   \* was never called; 0 afterwards)
  ms,              \* MemoryStorage.images
  lastOp,          \* the last library call and what it returned
  run              \* position and locals of the command's RunE

cfgVars == <<scenario, maxSize, concurrency, cancelledAtCall>>
poolVars == <<urls, urlChan, urlClosed, resultChan, resultClosed, wg, results, report, mainpc, sent, spawned>>
diskVars == <<fs, ds, ms, lastOp>>
vars == <<scenario, maxSize, concurrency, cancelled, cancelledAtCall, proc, urls, urlChan,
          urlClosed, resultChan, resultClosed, wg, results, report, mainpc, sent, spawned,
          fs, ds, ms, lastOp, run>>

\* goroutine 0 is a direct caller of FetchSingle, 1..MaxConcurrency are workers
Procs == 0..MaxConcurrency
Workers == 1..MaxConcurrency

maxRetries == DefaultMaxRetries

\* ----------------------------------------------- what the network can do
MaxBody == MaxSizeBound + 2

\* a body of n bytes
Body(n) == [i \in 1..n |-> i]

NoStream == [bytes |-> <<>>, err |-> <<>>]
NoOutcome == [err |-> <<>>, status |-> 0, ctype |-> <<>>, cl |-> -1, stream |-> NoStream]

\* the pool is exercised with a success and a failure per URL (retries arise
\* there from interrupted body reads); the single fetch with the full variety
EnvStatuses == IF scenario = "pool" THEN {404} ELSE {403, 404, 429, 500, 502, 503, 504}
AllHeaders == {T_png, H_pngUpperCharset, H_gifSpaces, H_html, H_semiFirst, <<>>}
AllNetErrors == {E_refused, E_clientTimeout, E_scheme}
EnvHeaders == IF scenario = "pool" THEN {T_png} ELSE AllHeaders
EnvNetErrors == IF scenario = "pool" THEN {} ELSE AllNetErrors
EnvBodyLens == IF scenario = "pool" THEN {1} ELSE 0..MaxBody
EnvReadErrors == IF scenario = "pool" THEN {} ELSE {E_eof}

\* the error of http.Client.Do wraps its cause in a *url.Error
UrlError(url, inner) == E_Get \o url \o E_GetEnd \o inner

\* a body stream delivers its bytes and then ends with EOF (err = <<>>) or
\* with a read error; a declared Content-Length is the length of a complete body
EnvStreams ==
  {[bytes |-> Body(n), err |-> <<>>] : n \in EnvBodyLens}
    \cup {[bytes |-> Body(n), err |-> e] : n \in EnvBodyLens, e \in EnvReadErrors}

\* the Content-Length values a response with this body can declare
DeclaredLengths(st) ==
  IF scenario = "pool" THEN {-1}
  ELSE {-1} \cup (IF st.err = <<>> THEN {Len(st.bytes)} ELSE {Len(st.bytes) + 1})

EnvResponses ==
  {[err |-> <<>>, status |-> s, ctype |-> <<>>, cl |-> -1, stream |-> NoStream] : s \in EnvStatuses}
    \cup UNION {{[err |-> <<>>, status |-> StatusOK, ctype |-> h, cl |-> c, stream |-> st] :
                   h \in EnvHeaders, c \in DeclaredLengths(st)} : st \in EnvStreams}

\* outcomes of f.client.Do(req): with a cancelled context the transport returns
\* the context's error without sending anything
DoOutcomes(url) ==
  IF cancelled
  THEN {[NoOutcome EXCEPT !.err = UrlError(url, E_canceled)]}
  ELSE EnvResponses \cup {[NoOutcome EXCEPT !.err = UrlError(url, e)] : e \in EnvNetErrors}

IsHex(c) == c \in {"0","1","2","3","4","5","6","7","8","9","a","b","c","d","e","f",
                   "A","B","C","D","E","F"}

\* http.NewRequestWithContext fails when the URL does not parse (an invalid
\* percent escape)
NewRequestFails(url) ==
  \E i \in 1..Len(url) :
    /\ url[i] = "%"
    /\ ~(i + 2 <= Len(url) /\ IsHex(url[i + 1]) /\ IsHex(url[i + 2]))

\* io.ReadAll(&io.LimitedReader{R: body, N: n})
ReadAllLimited(stream, n) ==
  IF Len(stream.bytes) >= n
  THEN [data |-> SubSeq(stream.bytes, 1, n), err |-> <<>>]
  ELSE [data |-> stream.bytes, err |-> stream.err]

\* ---------------------------------------------------------------- Result
NewResult(url) ==
  [URL |-> url, Data |-> <<>>, DataNil |-> TRUE, ContentType |-> <<>>, Size |-> 0,
   Error |-> NoError]

IdleProc ==
  [pc |-> "unstarted", url |-> <<>>, attempt |-> 0, nreq |-> 0, delays |-> <<>>,
   stream |-> NoStream, result |-> NewResult(<<>>), last |-> NoOutcome, allRetry |-> TRUE,
   atCancel |-> -1]

\* entry of fetchSingle: result := Result{URL: url}, attempt := 0
EnterFetchSingle(url) ==
  [IdleProc EXCEPT !.pc = "request", !.url = url, !.result = NewResult(url)]

\* the statuses the documentation calls retryable
RetryableStatuses == {429, 500, 502, 503, 504}
IsRetryStatusOutcome(o) == o.err = <<>> /\ o.status \in RetryableStatuses

\* the URLs fetched directly and through the pool
SingleUrls == {U_a, U_timeout, U_bad}
PoolUrls == {U_a, U_b}

\* the three string functions that fetchSingle calls, evaluated once on every
\* string the environment above can hand them
RequestErrors ==
  {UrlError(u, e) : u \in SingleUrls \cup PoolUrls, e \in AllNetErrors \cup {E_canceled}}
NewRequestFailsOf == [u \in SingleUrls \cup PoolUrls |-> NewRequestFails(u)]
isRetryableErrorOf == [err \in RequestErrors |-> isRetryableError(err)]
ValidateContentTypeOf == [h \in AllHeaders |-> ValidateContentType(h)]

\* the retry decisions of fetchSingle
\* mutant: every request error is retried while retries remain
RetryRequestError_Always(attempt, err) == attempt < maxRetries
RetryRequestError(attempt, err) == attempt < maxRetries /\ isRetryableErrorOf[err]
\* mutant: the last attempt retries too
RetryStatus_Inclusive(attempt, status) == attempt <= maxRetries /\ isRetryableStatusCode(status)
RetryStatus(attempt, status) == attempt < maxRetries /\ isRetryableStatusCode(status)
\* mutant: a failed read is retried at the last attempt too
RetryReadError_Always(attempt) == TRUE
RetryReadError(attempt) == attempt < maxRetries
\* mutant: the attempt index in place of the attempt count
StatusAttempts_ZeroBased(attempt) == attempt
\* the count in "HTTP %d: %s (after %d attempts)"
StatusAttempts(attempt) == attempt + 1
LoopContinues(attempt) == attempt <= maxRetries
\* mutant: off by one
ContentLengthTooLarge_OffByOne(cl) == cl > 0 /\ cl > maxSize + 1
ContentLengthTooLarge(cl) == cl > 0 /\ cl > maxSize
\* mutant: off by one
BodyTooLarge_OffByOne(data) == Len(data) > maxSize + 1
BodyTooLarge(data) == Len(data) > maxSize

\* fetchSingle, from the top of the loop body to the body read: build the
\* request, perform it, check status, content type and declared length
Request(p) ==
  /\ proc[p].pc = "request"
  /\ LET st == proc[p] IN
     IF NewRequestFailsOf[st.url]
     THEN proc' = [proc EXCEPT ![p] =
            [st EXCEPT !.pc = "ret",
                       !.result.Error = Err("failed to create request", 0, 0, st.url)]]
     ELSE \E o \in DoOutcomes(st.url) :
       LET st1 == [st EXCEPT !.nreq = @ + 1, !.last = o,
                             !.allRetry = @ /\ (st.nreq = 0 \/ IsRetryStatusOutcome(st.last))]
       IN proc' = [proc EXCEPT ![p] =
            IF o.err # <<>>
            THEN IF RetryRequestError(st.attempt, o.err)
                 THEN [st1 EXCEPT !.pc = "sleep"]
                 ELSE [st1 EXCEPT !.pc = "ret",
                         !.result.Error = Err("HTTP request failed", 0, st.attempt + 1, o.err)]
            ELSE IF o.status # StatusOK
            THEN IF RetryStatus(st.attempt, o.status)
                 THEN [st1 EXCEPT !.pc = "sleep"]
                 ELSE [st1 EXCEPT !.pc = "ret",
                         !.result.Error = Err("HTTP status", o.status,
                                              StatusAttempts(st.attempt), <<>>)]
            ELSE IF ValidateContentTypeOf[o.ctype] # NoError
            THEN [st1 EXCEPT !.pc = "ret", !.result.Error = ValidateContentTypeOf[o.ctype]]
            ELSE IF ContentLengthTooLarge(o.cl)
            THEN [st1 EXCEPT !.pc = "ret", !.result.ContentType = o.ctype,
                    !.result.Error = Err("file too large", o.cl, 0, <<>>)]
            ELSE [st1 EXCEPT !.pc = "read", !.result.ContentType = o.ctype,
                    !.stream = o.stream]]
  /\ UNCHANGED <<cfgVars, run, cancelled, poolVars, diskVars>>

\* mutant: the size limit reported in place of the size
ResultSize_Limit(data) == maxSize

\* result.Size = int64(len(data))
ResultSize(data) == Len(data)

\* what the body delivers: a cancellation that arrives during the read cuts
\* the stream short with the context's error
Delivered(stream) ==
  IF cancelled
  THEN {stream} \cup {[bytes |-> SubSeq(stream.bytes, 1, k), err |-> E_canceled] :
                        k \in 0..Len(stream.bytes)}
  ELSE {stream}

\* fetchSingle, from io.ReadAll to the end of the loop body
ReadBody(p) ==
  /\ proc[p].pc = "read"
  /\ LET st == proc[p] IN
     \E s \in Delivered(st.stream) :
       LET rd == ReadAllLimited(s, maxSize + 1)
           st1 == [st EXCEPT !.stream = NoStream, !.last.stream = s]
       IN proc' = [proc EXCEPT ![p] =
            IF rd.err # <<>>
            THEN IF RetryReadError(st.attempt)
                 THEN [st1 EXCEPT !.pc = "sleep"]
                 ELSE [st1 EXCEPT !.pc = "ret",
                         !.result.Error = Err("failed to read response body", 0,
                                              st.attempt + 1, rd.err)]
            ELSE IF BodyTooLarge(rd.data)
            THEN [st1 EXCEPT !.pc = "ret",
                    !.result.Error = Err("file too large", Len(rd.data), 0, <<>>)]
            ELSE [st1 EXCEPT !.pc = "ret", !.result.Data = rd.data,
                    !.result.DataNil = FALSE, !.result.Size = ResultSize(rd.data)]]
  /\ UNCHANGED <<cfgVars, run, cancelled, poolVars, diskVars>>

\* time.Sleep(calculateBackoffDelay(attempt)); continue
Sleep(p) ==
  /\ proc[p].pc = "sleep"
  /\ LET st == proc[p]
         st1 == [st EXCEPT !.attempt = @ + 1,
                           !.delays = Append(@, calculateBackoffDelay(st.attempt))]
     IN proc' = [proc EXCEPT ![p] =
          IF LoopContinues(st.attempt + 1)
          THEN [st1 EXCEPT !.pc = "request"]
          ELSE [st1 EXCEPT !.pc = "ret",
                  !.result.Error = Err("unexpected error in retry loop", 0, 0, <<>>)]]
  /\ UNCHANGED <<cfgVars, run, cancelled, poolVars, diskVars>>

\* the caller's cancel function, or the deadline of ctx. (History: a fetch
\* that is in progress notes in atCancel how many requests it has started,
\* the one in flight included.)
Cancel ==
  /\ scenario \in {"single", "pool"}
  /\ ~cancelled
  /\ cancelled' = TRUE
  /\ proc' = [p \in Procs |->
       IF proc[p].pc \in {"request", "read", "sleep"}
       THEN [proc[p] EXCEPT !.atCancel =
               proc[p].nreq + (IF proc[p].pc = "request" THEN 1 ELSE 0)]
       ELSE proc[p]]
  /\ UNCHANGED <<cfgVars, run, poolVars, diskVars>>

\* ------------------------------------------------------- FetchConcurrent
Event(op, n, ok) == [op |-> op, n |-> n, ok |-> ok]

\* entry: the empty list returns at once; otherwise reporter.Start and the
\* two channels of capacity len(urls)
Call ==
  /\ mainpc = "call"
  /\ IF Len(urls) = 0
     THEN /\ mainpc' = "done"
          /\ UNCHANGED report
     ELSE /\ mainpc' = "spawn"
          /\ report' = Append(report, Event("Start", Len(urls), TRUE))
  /\ UNCHANGED <<cfgVars, run, cancelled, proc, urls, urlChan, urlClosed, resultChan,
                 resultClosed, wg, results, sent, spawned, diskVars>>

\* mutant: a loop that runs once more
StartWorker_OneMore(i) == i <= concurrency

\* the loop condition of `for i := 0; i < f.concurrency; i++`
StartWorker(i) == i < concurrency

\* wg.Add(1); go f.worker(...)
Spawn ==
  /\ mainpc = "spawn"
  /\ StartWorker(spawned)
  /\ spawned' = spawned + 1
  /\ wg' = wg + 1
  /\ proc' = [proc EXCEPT ![spawned + 1] = [IdleProc EXCEPT !.pc = "recv"]]
  /\ UNCHANGED <<cfgVars, run, cancelled, urls, urlChan, urlClosed, resultChan, resultClosed,
                 results, report, mainpc, sent, diskVars>>

\* urlChan <- url
SendURL ==
  /\ mainpc = "spawn"
  /\ spawned >= concurrency
  /\ sent < Len(urls)
  /\ Len(urlChan) < Len(urls)
  /\ urlChan' = Append(urlChan, urls[sent + 1])
  /\ sent' = sent + 1
  /\ UNCHANGED <<cfgVars, run, cancelled, proc, urls, urlClosed, resultChan, resultClosed, wg,
                 results, report, mainpc, spawned, diskVars>>

\* close(urlChan), then the closer goroutine is started and the collector loop entered
CloseURLs ==
  /\ mainpc = "spawn"
  /\ spawned >= concurrency
  /\ sent = Len(urls)
  /\ urlClosed' = TRUE
  /\ mainpc' = "collect"
  /\ UNCHANGED <<cfgVars, run, cancelled, proc, urls, urlChan, resultChan, resultClosed, wg,
                 results, report, sent, spawned, diskVars>>

\* mutant: the closer does not wait
WaitReturns_AtOnce(n) == TRUE

\* wg.Wait() returns when the counter is zero
WaitReturns(n) == n = 0

\* the closer goroutine: wg.Wait(); close(resultChan)
CloseResults ==
  /\ mainpc = "collect"
  /\ ~resultClosed
  /\ WaitReturns(wg)
  /\ resultClosed' = TRUE
  /\ UNCHANGED <<cfgVars, run, cancelled, proc, urls, urlChan, urlClosed, resultChan, wg,
                 results, report, mainpc, sent, spawned, diskVars>>

\* mutant: the counter reported before it is incremented
Completed_Stale(collected) == collected

\* completed++ : the counter equals the number of results collected so far
Completed(collected) == collected + 1

\* one iteration of `for result := range resultChan`
Collect ==
  /\ mainpc = "collect"
  /\ resultChan # <<>>
  /\ LET result == Head(resultChan) IN
       /\ results' = Append(results, result)
       /\ report' = Append(report, Event("Update", Completed(Len(results)),
                                         result.Error = NoError))
  /\ resultChan' = Tail(resultChan)
  /\ UNCHANGED <<cfgVars, run, cancelled, proc, urls, urlChan, urlClosed, resultClosed, wg,
                 mainpc, sent, spawned, diskVars>>

\* the range loop ends on the closed, drained channel; deferred reporter.Finish
Return ==
  /\ mainpc = "collect"
  /\ resultChan = <<>>
  /\ resultClosed
  /\ mainpc' = "done"
  /\ report' = Append(report, Event("Finish", 0, TRUE))
  /\ UNCHANGED <<cfgVars, run, cancelled, proc, urls, urlChan, urlClosed, resultChan,
                 resultClosed, wg, results, sent, spawned, diskVars>>

\* mutant: a worker that never reports completion
WgDone_Forgotten(n) == n

\* wg.Done()
WgDone(n) == n - 1

\* resultChan <- r: blocks while the buffer is full, panics on a closed channel
SendResult(p, r, nextpc) ==
  IF resultClosed
  THEN /\ proc' = [proc EXCEPT ![p] = [IdleProc EXCEPT !.pc = "panic"]]
       /\ UNCHANGED <<resultChan, wg>>
  ELSE /\ Len(resultChan) < Len(urls)
       /\ resultChan' = Append(resultChan, r)
       /\ proc' = [proc EXCEPT ![p] = [IdleProc EXCEPT !.pc = nextpc]]
       /\ wg' = IF nextpc = "exited" THEN WgDone(wg) ELSE wg

\* mutant: a receive that leaves the value in the channel
Received_Kept(ch) == ch

\* a channel receive removes the value it delivers
Received(ch) == Tail(ch)

\* worker: `for url := range urlChan` receives the next URL
Dequeue(p) ==
  /\ proc[p].pc = "recv"
  /\ urlChan # <<>>
  /\ proc' = [proc EXCEPT ![p].pc = "select", ![p].url = Head(urlChan)]
  /\ urlChan' = Received(urlChan)
  /\ UNCHANGED <<cfgVars, run, cancelled, urls, urlClosed, resultChan, resultClosed, wg,
                 results, report, mainpc, sent, spawned, diskVars>>

\* worker: the range loop ends on the closed, drained channel; deferred wg.Done
WorkerExit(p) ==
  /\ proc[p].pc = "recv"
  /\ urlChan = <<>>
  /\ urlClosed
  /\ proc' = [proc EXCEPT ![p].pc = "exited"]
  /\ wg' = WgDone(wg)
  /\ UNCHANGED <<cfgVars, run, cancelled, urls, urlChan, urlClosed, resultChan, resultClosed,
                 results, report, mainpc, sent, spawned, diskVars>>

\* mutant: a worker that never looks at the context
CtxDone_Ignored(c) == FALSE

\* `case <-ctx.Done()` is ready exactly when the context has been cancelled
CtxDone(c) == c

\* worker: the select on ctx.Done(); on cancellation it publishes the
\* context's error for this URL and returns, otherwise it enters fetchSingle
Select(p) ==
  /\ proc[p].pc = "select"
  /\ IF CtxDone(cancelled)
     THEN SendResult(p, [NewResult(proc[p].url) EXCEPT !.Error = CtxErr], "exited")
     ELSE /\ proc' = [proc EXCEPT ![p] = EnterFetchSingle(proc[p].url)]
          /\ UNCHANGED <<resultChan, wg>>
  /\ UNCHANGED <<cfgVars, run, cancelled, urls, urlChan, urlClosed, resultClosed,
                 results, report, mainpc, sent, spawned, diskVars>>

\* worker: resultChan <- result after fetchSingle returned
Publish(p) ==
  /\ p \in Workers
  /\ proc[p].pc = "ret"
  /\ SendResult(p, proc[p].result, "recv")
  /\ UNCHANGED <<cfgVars, run, cancelled, urls, urlChan, urlClosed, resultClosed,
                 results, report, mainpc, sent, spawned, diskVars>>

\* ----------------------------------------------------------- specifications
NoOp == [op |-> "none"]

\* the command is not running
NoRun == [pc |-> "none"]

FetchInit ==
  /\ cancelled \in BOOLEAN
  /\ cancelledAtCall = cancelled
  /\ urlChan = <<>>
  /\ urlClosed = FALSE
  /\ resultChan = <<>>
  /\ resultClosed = FALSE
  /\ wg = 0
  /\ results = <<>>
  /\ report = <<>>
  /\ sent = 0
  /\ spawned = 0
  /\ fs = <<>>
  /\ ds = <<>>
  /\ ms = <<>>
  /\ lastOp = NoOp
  /\ run = NoRun

PoolMaxSize == 1

UrlLists(S, n) == UNION {[1..k -> S] : k \in 0..n}

\* the pool treats URLs as opaque, and both pool URLs parse and fetch alike:
\* lists that differ only by exchanging the two URLs behave alike, so one of
\* each pair is taken (the one whose first element is U_a)
PoolUrlLists == {l \in UrlLists(PoolUrls, MaxUrls) : Len(l) = 0 \/ l[1] = U_a}

\* a direct call of FetchSingle(ctx, url)
InitSingle ==
  /\ scenario = "single"
  /\ maxSize \in 0..MaxSizeBound
  /\ concurrency = 0
  /\ urls = <<>>
  /\ mainpc = "none"
  /\ \E u \in SingleUrls : proc = [p \in Procs |-> IF p = 0 THEN EnterFetchSingle(u) ELSE IdleProc]
  /\ FetchInit

NextSingle == Request(0) \/ ReadBody(0) \/ Sleep(0) \/ Cancel

SpecSingle == InitSingle /\ [][NextSingle]_vars

\* a call of FetchConcurrent(ctx, urls)
InitPool ==
  /\ scenario = "pool"
  /\ maxSize = PoolMaxSize
  /\ concurrency \in 0..MaxConcurrency
  /\ urls \in PoolUrlLists
  /\ mainpc = "call"
  /\ proc = [p \in Procs |-> IdleProc]
  /\ FetchInit

NextPool ==
  \/ Call \/ Spawn \/ SendURL \/ CloseURLs \/ CloseResults \/ Collect \/ Return
  \/ \E p \in Workers :
       Dequeue(p) \/ WorkerExit(p) \/ Select(p) \/ Publish(p)
         \/ Request(p) \/ ReadBody(p) \/ Sleep(p)
  \/ Cancel

SpecPool == InitPool /\ [][NextPool]_vars

\* the scheduler keeps running goroutines: while some goroutine of the call
\* can take a step, one of them eventually does; every HTTP attempt, body
\* read and sleep returns. Cancellation is up to the caller and not forced.
MainStep == Call \/ Spawn \/ SendURL \/ CloseURLs \/ Collect \/ Return
WorkerStep(p) ==
  Dequeue(p) \/ WorkerExit(p) \/ Select(p) \/ Publish(p) \/ Request(p) \/ ReadBody(p) \/ Sleep(p)
Progress == MainStep \/ CloseResults \/ \E p \in Workers : WorkerStep(p)

SpecPoolFair == SpecPool /\ WF_vars(Progress)

\* ---------------------------------------------------------- DiskStorage
Instances == {1, 2}

\* inputs of Store
StoreData == {<<>>, <<1>>, <<1, 2>>}
StoreTypes == {T_png, H_html}
StoreUrls == {U_a}

\* content written by a process other than this program
ExternalData == <<9>>

\* the names an external process may create in the output directory
ExternalPaths ==
  {Join(OutputDir, GenerateFilename(i, X_png)) : i \in 0..(MaxStores - 1)}

\* extension and path of a Store call, evaluated once for every input above
DetermineExtensionOf ==
  [c \in StoreTypes |-> [u \in StoreUrls \cup PoolUrls |-> DetermineExtension(c, u)]]
StoreExtensions == {DetermineExtensionOf[c][u] : c \in StoreTypes, u \in StoreUrls}
StorePathOf ==
  [i \in 0..MaxStores |-> [e \in StoreExtensions |-> Join(OutputDir, GenerateFilename(i, e))]]

\* os.Stat(path) returns no error
Exists(path) == path \in DOMAIN fs

\* the directory after a file is created or replaced
WriteTo(files, path, data) ==
  [q \in (DOMAIN files) \cup {path} |-> IF q = path THEN data ELSE files[q]]

\* the directory after a file is removed
RemoveFrom(files, gone) == [q \in (DOMAIN files) \ gone |-> files[q]]

\* mutant: the force flag ignored
Protected_Always(force, path) == Exists(path)

\* mutant: the flag tested the wrong way round
Protected_Inverted(force, path) == force /\ Exists(path)

\* overwrite protection: the existence check that refuses the write
Protected(force, path) == ~force /\ Exists(path)

\* os.WriteFile ends in one of three ways: written; the open failed and
\* nothing changed; the write failed after the file was created or truncated
WriteOutcomes == {"written", "open failed", "write failed"}

\* mutant: the emptiness check left out
EmptyData_Never(data) == FALSE

\* len(data) == 0, the first check of both Store methods
EmptyData(data) == Len(data) = 0

\* mutant: every file takes the first number
ReadIndex_First(files) == 0

\* index := len(ds.files)
ReadIndex(files) == Len(files)

\* mutant: only the last path is remembered
Track_LastOnly(files, path) == <<path>>

\* ds.files = append(ds.files, filepath)
Track(files, path) == Append(files, path)

\* DiskStorage.Count and GetFiles (a copy of the tracked list)
DiskCount(i) == Len(ds[i].files)
GetFiles(i) == [k \in 1..Len(ds[i].files) |-> ds[i].files[k]]

\* the body of DiskStorage.Store: what it does to the directory and to the
\* instance, and what it returns (in lastOp)
StoreCall(i, data, contentType, url) ==
  /\ LET extension == DetermineExtensionOf[contentType][url]
         index == ReadIndex(ds[i].files)
         path == StorePathOf[index][extension]
         call == [op |-> "Store", inst |-> i, force |-> ds[i].force, data |-> data,
                  path |-> path, ret |-> <<>>, err |-> "nil"]
     IN IF EmptyData(data)
        THEN /\ lastOp' = [call EXCEPT !.path = <<>>, !.err = "cannot store empty data"]
             /\ UNCHANGED <<fs, ds>>
        ELSE IF Protected(ds[i].force, path)
        THEN /\ lastOp' = [call EXCEPT !.err = "already exists"]
             /\ UNCHANGED <<fs, ds>>
        ELSE \E w \in WriteOutcomes :
               IF w = "written"
               THEN /\ fs' = WriteTo(fs, path, data)
                    /\ ds' = [ds EXCEPT ![i].files = Track(@, path),
                                         ![i].nstored = IF ds[i].cleaned THEN @ ELSE @ + 1]
                    /\ lastOp' = [call EXCEPT !.ret = path]
               ELSE /\ fs' = IF w = "open failed" THEN fs ELSE WriteTo(fs, path, <<>>)
                    /\ lastOp' = [call EXCEPT !.err = "failed to write file"]
                    /\ UNCHANGED ds

Store(i, data, contentType, url) ==
  /\ scenario \in {"disk", "storage"}
  /\ Len(ds[i].files) < MaxStores
  /\ StoreCall(i, data, contentType, url)
  /\ UNCHANGED <<cfgVars, run, cancelled, proc, poolVars, ms>>

\* the tracked files whose os.Remove fails: those that are gone already and
\* any the file system refuses to delete
RemoveFailures(i, refused) ==
  {k \in 1..Len(ds[i].files) : ds[i].files[k] \notin DOMAIN fs \/ ds[i].files[k] \in refused}

Cleanup(i) ==
  /\ scenario \in {"disk", "storage"}
  /\ \E refused \in SUBSET {ds[i].files[k] : k \in 1..Len(ds[i].files)} :
       LET failed == RemoveFailures(i, refused)
           removed == {ds[i].files[k] : k \in (1..Len(ds[i].files)) \ failed}
           call == [op |-> "Cleanup", inst |-> i, force |-> ds[i].force, data |-> <<>>,
                    path |-> <<>>, ret |-> <<>>, err |-> "nil"]
       IN /\ fs' = RemoveFrom(fs, removed)
          /\ IF failed # {}
             THEN /\ lastOp' = [call EXCEPT !.err = "cleanup failed",
                                  !.path = ds[i].files[CHOOSE k \in failed : \A j \in failed : k <= j]]
                  /\ ds' = [ds EXCEPT ![i].cleaned = TRUE, ![i].nstored = 0]
             ELSE /\ lastOp' = call
                  /\ ds' = [ds EXCEPT ![i].files = <<>>, ![i].cleaned = TRUE, ![i].nstored = 0]
  /\ UNCHANGED <<cfgVars, run, cancelled, proc, poolVars, ms>>

\* another process creates or replaces a file in the output directory
ExternalCreate(path) ==
  /\ scenario \in {"disk", "storage", "pipeline"}
  /\ fs' = WriteTo(fs, path, ExternalData)
  /\ UNCHANGED <<cfgVars, run, cancelled, proc, poolVars, ds, ms, lastOp>>

\* the storages right after construction: NewDiskStorage twice on the same
\* directory, NewMemoryStorage once
StorageInit ==
  /\ maxSize = 0
  /\ concurrency = 0
  /\ cancelled = FALSE
  /\ cancelledAtCall = FALSE
  /\ proc = [p \in Procs |-> IdleProc]
  /\ urls = <<>>
  /\ urlChan = <<>>
  /\ urlClosed = FALSE
  /\ resultChan = <<>>
  /\ resultClosed = FALSE
  /\ wg = 0
  /\ results = <<>>
  /\ report = <<>>
  /\ mainpc = "none"
  /\ sent = 0
  /\ spawned = 0
  /\ fs = <<>>
  /\ \E f1 \in BOOLEAN, f2 \in BOOLEAN :
       ds = [i \in Instances |-> [force |-> IF i = 1 THEN f1 ELSE f2, files |-> <<>>,
                                   nstored |-> 0, cleaned |-> FALSE]]
  /\ ms = <<>>
  /\ lastOp = NoOp
  /\ run = NoRun

\* two DiskStorage instances used on the same directory
InitDisk == scenario = "disk" /\ StorageInit

NextDisk ==
  \/ \E i \in Instances, data \in StoreData, contentType \in StoreTypes, url \in StoreUrls :
       Store(i, data, contentType, url)
  \/ \E i \in Instances : Cleanup(i)
  \/ \E path \in ExternalPaths : ExternalCreate(path)

SpecDisk == InitDisk /\ [][NextDisk]_vars

\* -------------------------------------------------------- MemoryStorage
\* the alphabet of base64.StdEncoding
encodeStd == <<
  "A","B","C","D","E","F","G","H","I","J","K","L","M","N","O","P",
  "Q","R","S","T","U","V","W","X","Y","Z","a","b","c","d","e","f",
  "g","h","i","j","k","l","m","n","o","p","q","r","s","t","u","v",
  "w","x","y","z","0","1","2","3","4","5","6","7","8","9","+","/">>

\* the four characters of a full group of three bytes
EncodeGroup(b1, b2, b3) ==
  LET n == b1 * 65536 + b2 * 256 + b3
  IN <<encodeStd[(n \div 262144) + 1], encodeStd[((n \div 4096) % 64) + 1],
       encodeStd[((n \div 64) % 64) + 1], encodeStd[(n % 64) + 1]>>

RECURSIVE EncodeToString(_)
\* base64.StdEncoding.EncodeToString: groups of three bytes, the last group
\* padded with '='
EncodeToString(data) ==
  IF Len(data) = 0 THEN <<>>
  ELSE IF Len(data) = 1
  THEN SubSeq(EncodeGroup(data[1], 0, 0), 1, 2) \o <<"=", "=">>
  ELSE IF Len(data) = 2
  THEN SubSeq(EncodeGroup(data[1], data[2], 0), 1, 3) \o <<"=">>
  ELSE EncodeGroup(data[1], data[2], data[3]) \o EncodeToString(SubSeq(data, 4, Len(data)))

\* inputs of MemoryStorage.Store: byte strings of up to MaxDataLen bytes
MaxDataLen == 3
MemData == {[i \in 1..n |-> (i * 85) % 256] : n \in 0..MaxDataLen}

EncodeToStringOf == [d \in MemData \cup StoreData |-> EncodeToString(d)]

\* MemoryStorage.Count
MemCount == Len(ms)

\* the body of MemoryStorage.Store
MemStoreCall(data, contentType, url) ==
  /\ LET call == [op |-> "MemStore", inst |-> 0, force |-> FALSE, data |-> data,
                  path |-> <<>>, ret |-> <<>>, err |-> "nil"]
     IN IF EmptyData(data)
        THEN /\ lastOp' = [call EXCEPT !.err = "cannot store empty data"]
             /\ UNCHANGED ms
        ELSE /\ ms' = Append(ms, EncodeToStringOf[data])
             /\ lastOp' = [call EXCEPT !.ret = EncodeToStringOf[data]]

MemStore(data, contentType, url) ==
  /\ scenario \in {"storage", "memory"}
  /\ Len(ms) < MaxStores
  /\ MemStoreCall(data, contentType, url)
  /\ UNCHANGED <<cfgVars, run, cancelled, proc, poolVars, fs, ds>>

\* MemoryStorage.Clear
Clear ==
  /\ scenario \in {"storage", "memory"}
  /\ ms' = <<>>
  /\ lastOp' = [op |-> "Clear", inst |-> 0, force |-> FALSE, data |-> <<>>,
                path |-> <<>>, ret |-> <<>>, err |-> "nil"]
  /\ UNCHANGED <<cfgVars, run, cancelled, proc, poolVars, fs, ds>>

\* the value of a base64 character, -1 for a character outside the alphabet
DecodeChar(c) ==
  IF \E k \in 1..64 : encodeStd[k] = c
  THEN (CHOOSE k \in 1..64 : encodeStd[k] = c) - 1
  ELSE -1

\* the bytes of one group of four characters; padding is accepted in the
\* last group only
DecodeGroup(g, last) ==
  LET v == [k \in 1..4 |-> DecodeChar(g[k])]
      n == v[1] * 262144 + v[2] * 4096
  IN IF v[1] < 0 \/ v[2] < 0 THEN [data |-> <<>>, ok |-> FALSE]
     ELSE IF g[3] = "=" /\ g[4] = "=" /\ last
     THEN [data |-> <<n \div 65536>>, ok |-> TRUE]
     ELSE IF v[3] >= 0 /\ g[4] = "=" /\ last
     THEN [data |-> <<(n + v[3] * 64) \div 65536, ((n + v[3] * 64) \div 256) % 256>>,
           ok |-> TRUE]
     ELSE IF v[3] >= 0 /\ v[4] >= 0
     THEN LET m == n + v[3] * 64 + v[4]
          IN [data |-> <<m \div 65536, (m \div 256) % 256, m % 256>>, ok |-> TRUE]
     ELSE [data |-> <<>>, ok |-> FALSE]

RECURSIVE DecodeString(_)
\* base64.StdEncoding.DecodeString: groups of four characters; a length
\* that is not a multiple of four or a foreign character is an error
DecodeString(s) ==
  IF Len(s) = 0 THEN [data |-> <<>>, ok |-> TRUE]
  ELSE IF Len(s) < 4 THEN [data |-> <<>>, ok |-> FALSE]
  ELSE LET g == DecodeGroup(SubSeq(s, 1, 4), Len(s) = 4)
           rest == DecodeString(SubSeq(s, 5, Len(s)))
       IN IF g.ok /\ rest.ok THEN [data |-> g.data \o rest.data, ok |-> TRUE]
          ELSE [data |-> <<>>, ok |-> FALSE]

\* the strings handed to GetImageData: what Store returned, the empty
\* string, and two strings that are not base64
B64_short == <<"V", "Q", "=">>
B64_foreign == <<"V", "Q", "*", "=">>
EncodedInputs ==
  {EncodeToStringOf[d] : d \in MemData} \cup {B64_short, B64_foreign}
DecodeStringOf == [s \in EncodedInputs |-> DecodeString(s)]

\* a call whose result the caller holds
MemCall(op, arg, ret, err) ==
  [op |-> op, inst |-> 0, force |-> FALSE, arg |-> arg, data |-> <<>>, path |-> <<>>,
   ret |-> ret, err |-> err]

\* mutant: the internal slice itself handed out
GetImagesResult_Alias(images) == [items |-> images, shared |-> TRUE]

\* GetImages: a new slice into which the images are copied; it shares no
\* storage with ms.images
GetImagesResult(images) ==
  [items |-> [k \in 1..Len(images) |-> images[k]], shared |-> FALSE]

GetImages ==
  /\ scenario = "memory"
  /\ lastOp' = MemCall("GetImages", <<>>, GetImagesResult(ms), "nil")
  /\ UNCHANGED <<cfgVars, run, cancelled, proc, poolVars, fs, ds, ms>>

\* what the caller writes into a list it was handed
B64_written == <<"x">>

\* the caller assigns to an element of the list GetImages returned; the
\* assignment reaches ms.images when the two share their storage
WriteReturned(k) ==
  /\ scenario = "memory"
  /\ lastOp.op = "GetImages"
  /\ k \in 1..Len(lastOp.ret.items)
  /\ lastOp' = [lastOp EXCEPT !.op = "WriteReturned", !.ret.items[k] = B64_written]
  /\ ms' = IF lastOp.ret.shared /\ k <= Len(ms) THEN [ms EXCEPT ![k] = B64_written] ELSE ms
  /\ UNCHANGED <<cfgVars, run, cancelled, proc, poolVars, fs, ds>>

\* MemoryStorage.GetImageData
GetImageData(encoded) ==
  /\ scenario = "memory"
  /\ lastOp' =
       IF encoded = <<>>
       THEN MemCall("GetImageData", encoded, <<>>, "encoded string cannot be empty")
       ELSE IF ~DecodeStringOf[encoded].ok
       THEN MemCall("GetImageData", encoded, <<>>, "failed to decode base64 string")
       ELSE MemCall("GetImageData", encoded, DecodeStringOf[encoded].data, "nil")
  /\ UNCHANGED <<cfgVars, run, cancelled, proc, poolVars, fs, ds, ms>>

\* one DiskStorage and one MemoryStorage driven by the same caller, with the
\* external process on the output directory
InitStorage == scenario = "storage" /\ StorageInit /\ ~ds[2].force

NextStorage ==
  \/ \E data \in StoreData, contentType \in StoreTypes, url \in StoreUrls :
       Store(1, data, contentType, url)
  \/ Cleanup(1)
  \/ \E path \in ExternalPaths : ExternalCreate(path)
  \/ \E data \in MemData, contentType \in StoreTypes, url \in StoreUrls :
       MemStore(data, contentType, url)
  \/ Clear

SpecStorage == InitStorage /\ [][NextStorage]_vars

\* one MemoryStorage and a caller that stores, lists, writes into the lists
\* it was handed, decodes and clears
InitMemory == scenario = "memory" /\ StorageInit /\ ~ds[1].force /\ ~ds[2].force

NextMemory ==
  \/ \E data \in MemData, contentType \in StoreTypes, url \in StoreUrls :
       MemStore(data, contentType, url)
  \/ Clear
  \/ GetImages
  \/ \E k \in 1..MaxStores : WriteReturned(k)
  \/ \E encoded \in EncodedInputs : GetImageData(encoded)

SpecMemory == InitMemory /\ [][NextMemory]_vars

\* ------------------------------------- content type and extension calls
\* mutant: the two icon types forgotten
GetFileExtensionFromContentType_NoIcon(contentType) ==
  IF contentType = <<>> THEN X_bin
  ELSE LET lower == StripParams(contentType)
       IN IF lower = T_png THEN X_png
          ELSE IF lower \in {T_jpeg, T_jpg} THEN X_jpg
          ELSE IF lower = T_gif THEN X_gif
          ELSE IF lower = T_webp THEN X_webp
          ELSE IF lower = T_svg THEN X_svg
          ELSE IF lower = T_bmp THEN X_bmp
          ELSE IF lower = T_tiff THEN X_tiff
          ELSE X_bin

\* the companion of ValidateContentType in the download package
GetFileExtensionFromContentType(contentType) ==
  IF contentType = <<>> THEN X_bin
  ELSE LET lower == StripParams(contentType)
       IN IF lower = T_png THEN X_png
          ELSE IF lower \in {T_jpeg, T_jpg} THEN X_jpg
          ELSE IF lower = T_gif THEN X_gif
          ELSE IF lower = T_webp THEN X_webp
          ELSE IF lower = T_svg THEN X_svg
          ELSE IF lower = T_bmp THEN X_bmp
          ELSE IF lower = T_tiff THEN X_tiff
          ELSE IF lower \in {T_xicon, T_msicon} THEN X_ico
          ELSE X_bin

ToUpperChar(c) ==
  IF \E i \in 1..26 : Lower[i] = c
  THEN Upper[CHOOSE i \in 1..26 : Lower[i] = c]
  ELSE c
ToUpper(s) == [i \in 1..Len(s) |-> ToUpperChar(s[i])]

\* content-type strings handed to the functions: every accepted type, some
\* that are not, and the empty string, each plain, upper-cased, padded with
\* whitespace and with a parameter or a semicolon before or after
TypeBases == validTypes \cup {H_html, T_heic, T_plain, <<>>}
TypeInputs ==
  UNION {{t, ToUpper(t), <<" ">> \o t \o <<" ", " ">>, <<"\t">> \o t \o <<"\n">>,
          t \o P_charset, t \o <<";">>, t \o <<" ", ";", "q">>, <<";">> \o t,
          <<" ", ";">> \o t} : t \in TypeBases}

\* URLs handed to DetermineExtension
UrlInputs == {U_a, U_b, U_timeout, U_hostOnly, U_fragment, U_pdf, U_queryFragment,
              U_noPath, <<>>}

\* the three functions evaluated once on every input above
ValidateContentTypeOn == [t \in TypeInputs |-> ValidateContentType(t)]
GetFileExtensionFromContentTypeOn == [t \in TypeInputs |-> GetFileExtensionFromContentType(t)]
DetermineExtensionOn == [t \in TypeInputs |-> [u \in UrlInputs |-> DetermineExtension(t, u)]]

LibCall(op, contentType, url, ret, err) ==
  [op |-> op, contentType |-> contentType, url |-> url, ret |-> ret, err |-> err]

CallValidateContentType(t) ==
  /\ scenario = "types"
  /\ lastOp' = LibCall("ValidateContentType", t, <<>>, <<>>, ValidateContentTypeOn[t])
  /\ UNCHANGED <<cfgVars, run, cancelled, proc, poolVars, fs, ds, ms>>

CallGetFileExtensionFromContentType(t) ==
  /\ scenario = "types"
  /\ lastOp' = LibCall("GetFileExtensionFromContentType", t, <<>>,
                       GetFileExtensionFromContentTypeOn[t], NoError)
  /\ UNCHANGED <<cfgVars, run, cancelled, proc, poolVars, fs, ds, ms>>

CallDetermineExtension(t, u) ==
  /\ scenario = "types"
  /\ lastOp' = LibCall("DetermineExtension", t, u, DetermineExtensionOn[t][u], NoError)
  /\ UNCHANGED <<cfgVars, run, cancelled, proc, poolVars, fs, ds, ms>>

InitTypes == scenario = "types" /\ StorageInit /\ \A i \in Instances : ~ds[i].force

NextTypes ==
  \/ \E t \in TypeInputs : CallValidateContentType(t)
  \/ \E t \in TypeInputs : CallGetFileExtensionFromContentType(t)
  \/ \E t \in TypeInputs, u \in UrlInputs : CallDetermineExtension(t, u)

SpecTypes == InitTypes /\ [][NextTypes]_vars

\* ------------------------------------------------------ claude package
suspicious == <<S_sus1, S_sus2, S_sus3, S_sus4, S_sus5, S_sus6>>

ValidateClaudeInput(prompt, images) ==
  IF prompt = <<>> THEN Err("prompt cannot be empty", 0, 0, <<>>)
  ELSE IF Len(images) = 0 THEN Err("at least one image is required", 0, 0, <<>>)
  ELSE LET lowerPrompt == ToLower(prompt)
           found == {k \in 1..Len(suspicious) : Contains(lowerPrompt, suspicious[k])}
       IN IF found # {}
          THEN Err("prompt contains potentially dangerous content", 0, 0,
                   suspicious[CHOOSE k \in found : \A j \in found : k <= j])
          ELSE NoError

\* strings.ReplaceAll(prompt, "\x00", "")
RemoveNul(s) == SelectSeq(s, LAMBDA c : c # Nul)

SanitizePrompt(prompt) ==
  IF prompt = <<>> THEN <<>> ELSE TrimSpace(RemoveNul(prompt))

\* inputs: prompts with and without each pattern, lists of image references
\* some of which are empty strings
MaxImages == 3
PromptInputs == {<<>>, P_describe, P_rm, P_sudoUpper, P_sudoLast, P_eval, P_exec,
                 P_subst, P_backtick}
ImageInputs == UNION {[1..n -> {<<>>, I_file}] : n \in 0..MaxImages}

ValidateClaudeInputOn ==
  [prompt \in PromptInputs |-> [images \in ImageInputs |-> ValidateClaudeInput(prompt, images)]]

CallValidateClaudeInput(prompt, images) ==
  /\ scenario = "claude"
  /\ lastOp' = [op |-> "ValidateClaudeInput", prompt |-> prompt, images |-> images,
                err |-> ValidateClaudeInputOn[prompt][images]]
  /\ UNCHANGED <<cfgVars, run, cancelled, proc, poolVars, fs, ds, ms>>

InitClaude == scenario = "claude" /\ StorageInit /\ \A i \in Instances : ~ds[i].force

NextClaude ==
  \E prompt \in PromptInputs, images \in ImageInputs : CallValidateClaudeInput(prompt, images)

SpecClaude == InitClaude /\ [][NextClaude]_vars

\* ------------------------------------------------- the command (RunE)
\* what FetchConcurrent can return for one URL: an image, an image with an
\* empty body, another image, a failure
FetchOutcomes ==
  { [NewResult(U_a) EXCEPT !.Data = Body(1), !.DataNil = FALSE, !.ContentType = T_png, !.Size = 1],
    [NewResult(U_a) EXCEPT !.DataNil = FALSE, !.ContentType = T_png],
    [NewResult(U_b) EXCEPT !.Data = Body(2), !.DataNil = FALSE, !.ContentType = T_png, !.Size = 2],
    [NewResult(U_b) EXCEPT !.Error = Err("HTTP status", 404, 1, <<>>)] }

\* one result per URL, and the command has returned before when there is no URL
FetchResultLists == UNION {[1..n -> FetchOutcomes] : n \in 1..MaxUrls}

\* values of --out and --send
OutDirs == {<<>>, OutputDir}
SendPrompts == {<<>>, P_describe, P_rm, P_sudoLast, P_sudoNul, P_padded}
SanitizePromptOf == [prompt \in SendPrompts |-> SanitizePrompt(prompt)]


\* the command is started with its flags (--force is ds[1].force)
Start(outDir, sendPrompt) ==
  /\ scenario = "pipeline"
  /\ run.pc = "none"
  /\ run' = [pc |-> "download", outDir |-> outDir, sendPrompt |-> sendPrompt,
             successfulResults |-> <<>>, k |-> 0, calls |-> <<>>, imageData |-> <<>>,
             claude |-> "not called", prompt |-> <<>>, err |-> "nil"]
  /\ UNCHANGED <<cfgVars, cancelled, proc, poolVars, diskVars>>

\* mutant: every result passed on
successfulResults_All(rs) == rs

\* the results whose Error is nil, in order
successfulResults(rs) == SelectSeq(rs, LAMBDA r : r.Error = NoError)

\* step 5: FetchConcurrent returns rs; count and keep the successes
Download(rs) ==
  /\ scenario = "pipeline"
  /\ run.pc = "download"
  /\ results' = rs
  /\ LET successful == successfulResults(rs)
     IN run' = IF Len(successful) = 0
               THEN [run EXCEPT !.pc = "done", !.err = "No images could be downloaded"]
               ELSE [run EXCEPT !.pc = "open", !.successfulResults = successful]
  /\ UNCHANGED <<cfgVars, cancelled, proc, urls, urlChan, urlClosed, resultChan, resultClosed,
                 wg, report, mainpc, sent, spawned, diskVars>>

\* step 6, before the loop: ValidateOutputPath and NewDiskStorage, or
\* NewMemoryStorage
OpenOutcomes == {"ok", "Invalid output directory", "Failed to initialize disk storage"}

OpenStorage(outcome) ==
  /\ scenario = "pipeline"
  /\ run.pc = "open"
  /\ run' = IF run.outDir = <<>> \/ outcome = "ok"
            THEN [run EXCEPT !.pc = "store", !.k = 1]
            ELSE [run EXCEPT !.pc = "done", !.err = outcome]
  /\ UNCHANGED <<cfgVars, cancelled, proc, poolVars, diskVars>>

\* mutant: the loop left at the first failed Store
AfterStore_Abort(k, n, err) == IF err # "nil" THEN n + 1 ELSE k + 1

\* the loop goes on with the next result, also after `continue`
AfterStore(k, n, err) == k + 1

\* step 6, one iteration of the loop over successfulResults
StoreResult ==
  /\ scenario = "pipeline"
  /\ run.pc = "store"
  /\ run.k <= Len(run.successfulResults)
  /\ LET result == run.successfulResults[run.k]
     IN /\ IF run.outDir # <<>>
           THEN /\ StoreCall(1, result.Data, result.ContentType, result.URL)
                /\ UNCHANGED ms
           ELSE /\ MemStoreCall(result.Data, result.ContentType, result.URL)
                /\ UNCHANGED <<fs, ds>>
        /\ run' = [run EXCEPT
                     !.k = AfterStore(run.k, Len(run.successfulResults), lastOp'.err),
                     !.calls = Append(@, [data |-> result.Data, contentType |-> result.ContentType,
                                          url |-> result.URL, err |-> lastOp'.err,
                                          ret |-> lastOp'.ret]),
                     !.imageData = IF lastOp'.err = "nil" THEN Append(@, lastOp'.ret) ELSE @]
  /\ UNCHANGED <<cfgVars, cancelled, proc, poolVars>>

\* step 7 after the loop: nothing without --send; otherwise IsClaudeAvailable,
\* ValidateClaudeInput on the raw prompt, then ExecuteClaude on
\* SanitizePrompt(sendPrompt) (run.prompt), each of which can end the run
Finish(available, executed) ==
  /\ scenario = "pipeline"
  /\ run.pc = "store"
  /\ run.k > Len(run.successfulResults)
  /\ run' = IF run.sendPrompt = <<>>
            THEN [run EXCEPT !.pc = "done"]
            ELSE IF ~available
            THEN [run EXCEPT !.pc = "done", !.claude = "unavailable",
                             !.err = "Claude CLI not available"]
            ELSE IF ValidateClaudeInput(run.sendPrompt, run.imageData) # NoError
            THEN [run EXCEPT !.pc = "done", !.claude = "refused",
                             !.err = "Invalid Claude input"]
            ELSE IF ~executed
            THEN [run EXCEPT !.pc = "done", !.claude = "failed",
                             !.prompt = SanitizePromptOf[run.sendPrompt],
                             !.err = "Claude execution failed"]
            ELSE [run EXCEPT !.pc = "done", !.claude = "executed",
                             !.prompt = SanitizePromptOf[run.sendPrompt]]
  /\ UNCHANGED <<cfgVars, cancelled, proc, poolVars, diskVars>>

InitPipeline == scenario = "pipeline" /\ StorageInit /\ ~ds[2].force

NextPipeline ==
  \/ \E outDir \in OutDirs, sendPrompt \in SendPrompts : Start(outDir, sendPrompt)
  \/ \E rs \in FetchResultLists : Download(rs)
  \/ \E outcome \in OpenOutcomes : OpenStorage(outcome)
  \/ StoreResult
  \/ \E available \in BOOLEAN, executed \in BOOLEAN : Finish(available, executed)
  \/ \E path \in ExternalPaths : ExternalCreate(path)

SpecPipeline == InitPipeline /\ [][NextPipeline]_vars

\* ------------------------------------------------------ markdown package
L_bangBracket == <<"!","[">>
L_img == <<"<","i","m","g">>
L_src == <<"s","r","c","=">>
L_githubCom == <<"h","t","t","p","s",":","/","/","g","i","t","h","u","b",".","c","o","m","/">>
L_assets == <<"/","a","s","s","e","t","s","/">>
L_https == <<"h","t","t","p","s",":","/","/">>
L_http == <<"h","t","t","p">>
L_schemeSep == <<":","/","/">>
L_userContent == <<"g","i","t","h","u","b","u","s","e","r","c","o","n","t","e","n","t",".","c","o","m">>
L_colonRef == <<"]",":">>
L_httpPrefix == <<"h","t","t","p",":","/","/">>
L_dataImage == <<"d","a","t","a",":","i","m","a","g","e","/">>
B_inline == <<"!","[","x","]","(","h","t","t","p",":","/","/","h","/","a",".","p","n","g",")">>
B_inlineNoExt == <<"!","[","y","]","(","h","t","t","p",":","/","/","h","/","b",")">>
B_html == <<"<","i","m","g"," ","s","r","c","=","\"","h","t","t","p",":","/","/","h","/","a",".","p","n","g","\"",">">>
B_usage == <<"!","[","z","]","[","r","]">>
B_usageUpper == <<"!","[","q","]","[","R","]">>
B_definition == <<"[","r","]",":"," ","h","t","t","p",":","/","/","h","/","c",".","g","i","f">>
B_asset == <<"h","t","t","p","s",":","/","/","g","i","t","h","u","b",".","c","o","m","/","o","/","r","/","a","s","s","e","t","s","/","1">>
B_padded == <<"!","[","x","]","("," ","h","t","t","p",":","/","/","h","/","a",".","p","n","g"," ",")">>
B_angle == <<"!","[","w","]","(","<","h","t","t","p",":","/","/","h","/","b"," ",">",")">>
B_text == <<"s","e","e"," ","h","t","t","p",":","/","/","h","/","b">>
\* isValidImageURL: the extensions looked for
imageExtensions ==
  << <<".","p","n","g">>,
     <<".","j","p","g">>,
     <<".","j","p","e","g">>,
     <<".","g","i","f">>,
     <<".","w","e","b","p">>,
     <<".","s","v","g">>,
     <<".","b","m","p">>,
     <<".","t","i","f","f">> >>
\* isValidImageURL: the hosting patterns looked for
imageHosts ==
  << <<"g","i","t","h","u","b",".","c","o","m","/">>,
     <<"g","i","t","h","u","b","u","s","e","r","c","o","n","t","e","n","t",".","c","o","m","/">>,
     <<"i","m","g","u","r",".","c","o","m","/">>,
     <<"i",".","i","m","g","u","r",".","c","o","m","/">>,
     <<"i","m","a","g","e","h","o","s","t","i","n","g">>,
     <<"i","m","a","g","e","s","/">>,
     <<"i","m","g","/">> >>
\* httpImageRegex: \.(?:png|jpg|jpeg|gif|webp|svg|bmp|tiff)
httpImageSuffixes ==
  << <<".","p","n","g">>,
     <<".","j","p","g">>,
     <<".","j","p","e","g">>,
     <<".","g","i","f">>,
     <<".","w","e","b","p">>,
     <<".","s","v","g">>,
     <<".","b","m","p">>,
     <<".","t","i","f","f">> >>
\* httpImageRegex: /(?:images?|img|assets|uploads)/
httpImageDirs ==
  << <<"/","i","m","a","g","e","s","/">>,
     <<"/","i","m","a","g","e","/">>,
     <<"/","i","m","g","/">>,
     <<"/","a","s","s","e","t","s","/">>,
     <<"/","u","p","l","o","a","d","s","/">> >>

\* the character at position i (from 1), or "" outside the string
At(s, i) == IF i >= 1 /\ i <= Len(s) THEN s[i] ELSE ""

\* the literal lit stands at position i of s
HasAt(s, i, lit) ==
  /\ i >= 1
  /\ i + Len(lit) - 1 <= Len(s)
  /\ \A k \in 1..Len(lit) : s[i + k - 1] = lit[k]

\* the first position from i on that holds a character of C, or 0
RECURSIVE Scan(_, _, _)
Scan(s, i, C) ==
  IF i > Len(s) THEN 0 ELSE IF s[i] \in C THEN i ELSE Scan(s, i + 1, C)

\* the last position of the longest run of characters outside C that starts
\* at i (i - 1 when the run is empty)
RunEnd(s, i, C) == LET stop == Scan(s, i, C) IN IF stop = 0 THEN Len(s) ELSE stop - 1

Max(S) == CHOOSE x \in S : \A y \in S : y <= x

\* \s of the regexp package, and [^\s)]
ReSpace == {" ", "\t", "\n", "\r", "\f"}
UrlStop == ReSpace \cup {")"}
Quotes == {"\"", "'"}

NoMatch == [end |-> 0, url |-> <<>>]

\* !\[[^\]]*\]\(([^)]+)\) at position i: the end of the match and group 1
markdownImageAt(s, i) ==
  IF ~HasAt(s, i, L_bangBracket) THEN NoMatch
  ELSE LET j == Scan(s, i + 2, {"]"})
           k == Scan(s, j + 2, {")"})
       IN IF j # 0 /\ At(s, j + 1) = "(" /\ k > j + 2
          THEN [end |-> k, url |-> SubSeq(s, j + 2, k - 1)]
          ELSE NoMatch

\* !\[[^\]]*\]\[([^\]]+)\] at position i
refUsageAt(s, i) ==
  IF ~HasAt(s, i, L_bangBracket) THEN NoMatch
  ELSE LET j == Scan(s, i + 2, {"]"})
           k == Scan(s, j + 2, {"]"})
       IN IF j # 0 /\ At(s, j + 1) = "[" /\ k > j + 2
          THEN [end |-> k, url |-> SubSeq(s, j + 2, k - 1)]
          ELSE NoMatch

\* <img[^>]+src=["']([^"']+)["'][^>]*> at position i; the greedy [^>]+
\* gives way until src= follows, so the last src= that completes a match
\* is taken
htmlImgAt(s, i) ==
  IF ~HasAt(s, i, L_img) THEN NoMatch
  ELSE LET last == RunEnd(s, i + 4, {">"})
           ps == {p \in (i + 5)..(last + 1) :
                    /\ HasAt(s, p, L_src)
                    /\ At(s, p + 4) \in Quotes
                    /\ Scan(s, p + 5, Quotes) > p + 5
                    /\ Scan(s, Scan(s, p + 5, Quotes) + 1, {">"}) # 0}
       IN IF ps = {} THEN NoMatch
          ELSE LET p == Max(ps)
                   q == Scan(s, p + 5, Quotes)
               IN [end |-> Scan(s, q + 1, {">"}), url |-> SubSeq(s, p + 5, q - 1)]

\* https://github\.com/[^/]+/[^/]+/assets/[^\s)]+ at position i
githubAssetAt(s, i) ==
  IF ~HasAt(s, i, L_githubCom) THEN NoMatch
  ELSE LET a == i + Len(L_githubCom)
           f1 == Scan(s, a, {"/"})
           f2 == Scan(s, f1 + 1, {"/"})
           b == f2 + Len(L_assets)
           e == RunEnd(s, b, UrlStop)
       IN IF f1 > a /\ f2 > f1 + 1 /\ HasAt(s, f2, L_assets) /\ e >= b
          THEN [end |-> e, url |-> SubSeq(s, i, e)]
          ELSE NoMatch

\* https://[^/]*githubusercontent\.com/[^\s)]+ at position i
githubUserContentAt(s, i) ==
  IF ~HasAt(s, i, L_https) THEN NoMatch
  ELSE LET a == i + Len(L_https)
           f == Scan(s, a, {"/"})
           g == f - Len(L_userContent)
           e == RunEnd(s, f + 1, UrlStop)
       IN IF f # 0 /\ g >= a /\ HasAt(s, g, L_userContent) /\ e >= f + 1
          THEN [end |-> e, url |-> SubSeq(s, i, e)]
          ELSE NoMatch

\* https?://[^\s)]+(?:\.(?:png|...)|/(?:images?|img|assets|uploads)/[^\s)]+)
\* at position i: the greedy [^\s)]+ gives way until an extension or a
\* directory name follows; r is the last position it keeps
httpImageAt(s, i) ==
  IF ~HasAt(s, i, L_http) THEN NoMatch
  ELSE LET c == IF At(s, i + 4) = "s" THEN i + 5 ELSE i + 4
           b == c + 3
           e == RunEnd(s, b, UrlStop)
           suffixAt(r) == {k \in 1..Len(httpImageSuffixes) : HasAt(s, r + 1, httpImageSuffixes[k])}
           dirAt(r) == {k \in 1..Len(httpImageDirs) :
                          /\ HasAt(s, r + 1, httpImageDirs[k])
                          /\ r + Len(httpImageDirs[k]) < e}
           rs == {r \in b..e : suffixAt(r) # {} \/ dirAt(r) # {}}
       IN IF ~HasAt(s, c, L_schemeSep) \/ rs = {} THEN NoMatch
          ELSE LET r == Max(rs)
               IN IF suffixAt(r) # {}
                  THEN LET k == CHOOSE x \in suffixAt(r) : \A y \in suffixAt(r) : x <= y
                       IN [end |-> r + Len(httpImageSuffixes[k]),
                           url |-> SubSeq(s, i, r + Len(httpImageSuffixes[k]))]
                  ELSE [end |-> e, url |-> SubSeq(s, i, e)]

Patterns == <<"markdownImageRegex", "htmlImgRegex", "githubAssetRegex",
              "githubUserContentRegex", "httpImageRegex">>

MatchAt(pattern, s, i) ==
  CASE pattern = "markdownImageRegex" -> markdownImageAt(s, i)
    [] pattern = "htmlImgRegex" -> htmlImgAt(s, i)
    [] pattern = "githubAssetRegex" -> githubAssetAt(s, i)
    [] pattern = "githubUserContentRegex" -> githubUserContentAt(s, i)
    [] pattern = "httpImageRegex" -> httpImageAt(s, i)
    [] pattern = "refUsageRegex" -> refUsageAt(s, i)

\* FindAllStringSubmatch: the leftmost matches from position i on, none
\* overlapping another; of each the group the code reads (match[1], or
\* match[0] for a pattern without group)
RECURSIVE FindAll(_, _, _)
FindAll(pattern, s, i) ==
  IF i > Len(s) THEN <<>>
  ELSE LET mt == MatchAt(pattern, s, i)
       IN IF mt.end = 0 THEN FindAll(pattern, s, i + 1)
          ELSE <<mt.url>> \o FindAll(pattern, s, mt.end + 1)

\* strings.Contains for a list of patterns
ContainsAny(s, list) == \E k \in 1..Len(list) : Contains(s, list[k])

isValidImageURL(url) ==
  IF url = <<>> THEN FALSE
  ELSE LET lower == ToLower(url)
       IN IF ~HasPrefix(lower, L_httpPrefix) /\ ~HasPrefix(lower, L_https)
               /\ ~HasPrefix(lower, L_dataImage)
          THEN FALSE
          ELSE IF HasPrefix(lower, L_dataImage) THEN TRUE
          ELSE IF ContainsAny(lower, imageExtensions) THEN TRUE
          ELSE IF ContainsAny(lower, imageHosts) THEN TRUE
          ELSE TRUE

\* the trimmed, non-empty and valid ones of a list of matches
ValidMatches(matches) ==
  SelectSeq([k \in 1..Len(matches) |-> TrimSpace(matches[k])],
            LAMBDA url : url # <<>> /\ isValidImageURL(url))

\* strings.Split(content, "\n")
RECURSIVE Lines(_)
Lines(s) ==
  LET nl == Scan(s, 1, {"\n"})
  IN IF nl = 0 THEN <<s>>
     ELSE <<SubSeq(s, 1, nl - 1)>> \o Lines(SubSeq(s, nl + 1, Len(s)))

\* the first position from i on that holds a character outside C, or 0
RECURSIVE ScanNot(_, _, _)
ScanNot(s, i, C) ==
  IF i > Len(s) THEN 0 ELSE IF s[i] \notin C THEN i ELSE ScanNot(s, i + 1, C)

\* ^\s*\[[^\]]+\]:\s*([^\s]+) matches the line
referenceMatches(line) ==
  LET a == ScanNot(line, 1, ReSpace)
      j == Scan(line, a + 1, {"]"})
  IN /\ a # 0
     /\ line[a] = "["
     /\ j > a + 1
     /\ At(line, j + 1) = ":"
     /\ ScanNot(line, j + 2, ReSpace) # 0

\* url[:idx] when the separator is found after the first character
CutAtFirst(url, sep) ==
  LET idx == Index(url, <<sep>>) IN IF idx > 0 THEN SubSeq(url, 1, idx) ELSE url

\* strings.Trim(url, `"'`)
TrimQuotes(url) ==
  LET keep == {i \in 1..Len(url) : url[i] \notin Quotes}
  IN IF keep = {} THEN <<>>
     ELSE SubSeq(url, CHOOSE i \in keep : \A j \in keep : i <= j,
                      CHOOSE i \in keep : \A j \in keep : i >= j)

\* the definition a line contributes: a sequence with one [key, url], or none
referenceOf(line) ==
  IF ~referenceMatches(line) THEN <<>>
  ELSE LET idx == Index(line, L_colonRef)
           part0 == SubSeq(line, 1, idx)
           part1 == SubSeq(line, idx + 3, Len(line))
           key == ToLower(TrimSpace(IF HasPrefix(part0, <<"[">>)
                                    THEN SubSeq(part0, 2, Len(part0)) ELSE part0))
           url == TrimQuotes(CutAtFirst(CutAtFirst(TrimSpace(part1), " "), "\t"))
       IN IF url # <<>> THEN <<[key |-> key, url |-> url]>> ELSE <<>>

\* extractReferences: the definitions in line order; a later definition of a
\* key replaces an earlier one in the map
RECURSIVE referencesOf(_)
referencesOf(lines) ==
  IF lines = <<>> THEN <<>> ELSE referenceOf(Head(lines)) \o referencesOf(Tail(lines))

extractReferences(content) == referencesOf(Lines(content))

\* references[key], as a sequence with the URL or none
Lookup(references, key) ==
  LET hits == {k \in 1..Len(references) : references[k].key = key}
  IN IF hits = {} THEN <<>> ELSE <<references[Max(hits)].url>>

\* the second pass of extractWithPatterns: usages resolved by the map
ResolvedUsages(content) ==
  LET references == extractReferences(content)
      refMatches == FindAll("refUsageRegex", content, 1)
      found == [k \in 1..Len(refMatches) |->
                  Lookup(references, ToLower(TrimSpace(refMatches[k])))]
      RECURSIVE Flat(_)
      Flat(k) == IF k > Len(found) THEN <<>> ELSE found[k] \o Flat(k + 1)
  IN SelectSeq(Flat(1), isValidImageURL)

RECURSIVE PatternMatches(_, _)
PatternMatches(content, k) ==
  IF k > Len(Patterns) THEN <<>>
  ELSE ValidMatches(FindAll(Patterns[k], content, 1)) \o PatternMatches(content, k + 1)

extractWithPatterns(content) == PatternMatches(content, 1) \o ResolvedUsages(content)

\* ---- goldmark, for the forms of the documents below: an inline image
\* ![alt](destination) or ![alt](<destination>) with optional blanks inside
\* the parentheses, and a full reference ![alt][label] whose label a link
\* reference definition of the document defines
Blank == {" ", "\t", "\n"}

\* a line "[label]: destination" that forms a paragraph of its own
linkDefinitionOf(line) ==
  LET j == Scan(line, 2, {"]"})
      a == ScanNot(line, j + 2, Blank)
  IN IF At(line, 1) = "[" /\ j > 2 /\ At(line, j + 1) = ":" /\ a # 0
     THEN <<[key |-> ToLower(TrimSpace(SubSeq(line, 2, j - 1))),
             url |-> SubSeq(line, a, RunEnd(line, a, Blank))]>>
     ELSE <<>>

RECURSIVE linkDefinitionsOf(_)
linkDefinitionsOf(lines) ==
  IF lines = <<>> THEN <<>>
  ELSE linkDefinitionOf(Head(lines)) \o linkDefinitionsOf(Tail(lines))

\* the first definition of a label is the one that counts
Definition(definitions, key) ==
  LET hits == {k \in 1..Len(definitions) : definitions[k].key = key}
  IN IF hits = {} THEN <<>>
     ELSE <<definitions[CHOOSE k \in hits : \A h \in hits : k <= h].url>>

\* the ast.Image node that starts at position i: its end and Destination
imageAt(s, i, definitions) ==
  IF ~HasAt(s, i, L_bangBracket) THEN NoMatch
  ELSE LET j == Scan(s, i + 2, {"]"})
       IN IF j = 0 THEN NoMatch
          ELSE IF At(s, j + 1) = "("
          THEN LET a == ScanNot(s, j + 2, Blank)
               IN IF At(s, a) = "<"
                  THEN LET g == Scan(s, a + 1, {">", "<", "\n"})
                           close == ScanNot(s, g + 1, Blank)
                       IN IF g # 0 /\ s[g] = ">" /\ At(s, close) = ")"
                          THEN [end |-> close, url |-> SubSeq(s, a + 1, g - 1)]
                          ELSE NoMatch
                  ELSE LET e == RunEnd(s, a, ReSpace \cup {")", "("})
                           close == ScanNot(s, e + 1, Blank)
                       IN IF a # 0 /\ At(s, close) = ")"
                          THEN [end |-> close, url |-> SubSeq(s, a, e)]
                          ELSE NoMatch
          ELSE IF At(s, j + 1) = "["
          THEN LET k == Scan(s, j + 2, {"]"})
                   def == Definition(definitions, ToLower(TrimSpace(SubSeq(s, j + 2, k - 1))))
               IN IF k > j + 2 /\ def # <<>>
                  THEN [end |-> k, url |-> def[1]]
                  ELSE NoMatch
          ELSE NoMatch

\* ast.Walk: the Destination of every image node, in document order
RECURSIVE imagesFrom(_, _, _)
imagesFrom(s, i, definitions) ==
  IF i > Len(s) THEN <<>>
  ELSE LET img == imageAt(s, i, definitions)
       IN IF img.end = 0 THEN imagesFrom(s, i + 1, definitions)
          ELSE <<img.url>> \o imagesFrom(s, img.end + 1, definitions)

ImageDestinations(content) == imagesFrom(content, 1, linkDefinitionsOf(Lines(content)))

\* deduplicateURLs (its argument urls is list here): the loop from entry k
\* on, with the map seen and the slice result
RECURSIVE deduplicateFrom(_, _, _, _)
deduplicateFrom(list, k, seen, result) ==
  IF k > Len(list) THEN result
  ELSE IF list[k] = <<>> THEN deduplicateFrom(list, k + 1, seen, result)
  ELSE LET normalized == TrimSpace(list[k])
       IN IF normalized \notin seen
          THEN deduplicateFrom(list, k + 1, seen \cup {normalized}, Append(result, normalized))
          ELSE deduplicateFrom(list, k + 1, seen, result)

\* mutant: nothing remembered as seen
deduplicateURLs_Forgetful(list) ==
  SelectSeq([k \in 1..Len(list) |-> TrimSpace(list[k])], LAMBDA url : url # <<>>)

deduplicateURLs(list) == deduplicateFrom(list, 1, {}, <<>>)

\* the slice urls of ExtractImageURLs before deduplication: the valid image
\* destinations of the AST, then what extractWithPatterns returns
CollectedURLs(content) ==
  SelectSeq(ImageDestinations(content), LAMBDA url : url # <<>> /\ isValidImageURL(url))
    \o extractWithPatterns(content)

ExtractImageURLs(content) ==
  IF content = <<>> THEN <<>> ELSE deduplicateURLs(CollectedURLs(content))

\* documents: up to MaxBlocks paragraphs, separated by an empty line
MaxBlocks == 2
Blocks == {B_inline, B_inlineNoExt, B_html, B_usage, B_usageUpper, B_definition, B_asset,
           B_padded, B_angle, B_text}
Documents == UNION {[1..n -> Blocks] : n \in 0..MaxBlocks}

RECURSIVE JoinBlocks(_)
JoinBlocks(doc) ==
  IF doc = <<>> THEN <<>>
  ELSE IF Len(doc) = 1 THEN doc[1]
  ELSE doc[1] \o <<"\n", "\n">> \o JoinBlocks(Tail(doc))

\* the call on every document, evaluated once
ExtractImageURLsOn ==
  [doc \in Documents |->
     LET content == JoinBlocks(doc)
     IN [content |-> content,
         urls |-> IF content = <<>> THEN <<>> ELSE CollectedURLs(content),
         ret |-> ExtractImageURLs(content)]]

\* one call per run of the extractor
CallExtractImageURLs(doc) ==
  /\ scenario = "markdown"
  /\ lastOp = NoOp
  /\ LET call == ExtractImageURLsOn[doc]
     IN lastOp' = [op |-> "ExtractImageURLs", content |-> call.content,
                   urls |-> call.urls, ret |-> call.ret]
  /\ UNCHANGED <<cfgVars, run, cancelled, proc, poolVars, fs, ds, ms>>

InitMarkdown == scenario = "markdown" /\ StorageInit /\ \A i \in Instances : ~ds[i].force

NextMarkdown == \E doc \in Documents : CallExtractImageURLs(doc)

SpecMarkdown == InitMarkdown /\ [][NextMarkdown]_vars

\* ------------------------------------- DiskStorage.Store, statement by statement
\* two goroutines each call Store once on instance 1; the statements of the
\* two calls interleave freely, and nothing else touches the directory
Callers == {1, 2}

\* a goroutine that has not called Store yet. (History: overlap records that
\* the other call was in progress when this one began.)
IdleCaller ==
  [pc |-> "idle", data |-> <<>>, path |-> <<>>, loaded |-> <<>>, ret |-> <<>>, err |-> "nil",
   overlap |-> FALSE]

InProgress(c) == proc[c].pc \notin {"idle", "done"}

\* the call: the emptiness check, DetermineExtension, index := len(ds.files)
\* and the path built from it
StoreBegin(c, data, contentType, url) ==
  /\ scenario = "race"
  /\ proc[c].pc = "idle"
  /\ LET path == StorePathOf[ReadIndex(ds[1].files)][DetermineExtensionOf[contentType][url]]
         st == [proc[c] EXCEPT !.data = data,
                               !.overlap = \E o \in Callers \ {c} : InProgress(o)]
     IN proc' = [proc EXCEPT ![c] =
          IF EmptyData(data)
          THEN [st EXCEPT !.pc = "done", !.err = "cannot store empty data"]
          ELSE [st EXCEPT !.pc = "stat", !.path = path]]
  /\ UNCHANGED <<cfgVars, run, cancelled, poolVars, diskVars>>

\* if !ds.force { os.Stat(filepath) ... }
StoreStat(c) ==
  /\ scenario = "race"
  /\ proc[c].pc = "stat"
  /\ proc' = [proc EXCEPT ![c] =
       IF Protected(ds[1].force, proc[c].path)
       THEN [@ EXCEPT !.pc = "done", !.err = "already exists"]
       ELSE [@ EXCEPT !.pc = "write"]]
  /\ UNCHANGED <<cfgVars, run, cancelled, poolVars, diskVars>>

\* os.WriteFile(filepath, data, 0644)
StoreWrite(c) ==
  /\ scenario = "race"
  /\ proc[c].pc = "write"
  /\ \E w \in WriteOutcomes :
       IF w = "written"
       THEN /\ fs' = WriteTo(fs, proc[c].path, proc[c].data)
            /\ proc' = [proc EXCEPT ![c].pc = "load"]
       ELSE /\ fs' = IF w = "open failed" THEN fs ELSE WriteTo(fs, proc[c].path, <<>>)
            /\ proc' = [proc EXCEPT ![c].pc = "done", ![c].err = "failed to write file"]
  /\ UNCHANGED <<cfgVars, run, cancelled, poolVars, ds, ms, lastOp>>

\* ds.files = append(ds.files, filepath), first half: the slice is read.
\* The two halves of an unsynchronized append may be separated by the other
\* goroutine's append, which is then lost
StoreLoad(c) ==
  /\ scenario = "race"
  /\ proc[c].pc = "load"
  /\ proc' = [proc EXCEPT ![c].pc = "append", ![c].loaded = ds[1].files]
  /\ UNCHANGED <<cfgVars, run, cancelled, poolVars, diskVars>>

\* second half: the extended slice is assigned, and the call returns the path
StoreAppend(c) ==
  /\ scenario = "race"
  /\ proc[c].pc = "append"
  /\ ds' = [ds EXCEPT ![1].files = Track(proc[c].loaded, proc[c].path)]
  /\ proc' = [proc EXCEPT ![c].pc = "done", ![c].ret = proc[c].path]
  /\ UNCHANGED <<cfgVars, run, cancelled, poolVars, fs, ms, lastOp>>

InitRace ==
  /\ scenario = "race"
  /\ maxSize = 0
  /\ concurrency = 0
  /\ cancelled = FALSE
  /\ cancelledAtCall = FALSE
  /\ proc = [p \in Procs |-> IdleCaller]
  /\ urls = <<>>
  /\ urlChan = <<>>
  /\ urlClosed = FALSE
  /\ resultChan = <<>>
  /\ resultClosed = FALSE
  /\ wg = 0
  /\ results = <<>>
  /\ report = <<>>
  /\ mainpc = "none"
  /\ sent = 0
  /\ spawned = 0
  /\ fs = <<>>
  /\ ds = [i \in Instances |-> [force |-> FALSE, files |-> <<>>, nstored |-> 0,
                                 cleaned |-> FALSE]]
  /\ ms = <<>>
  /\ lastOp = NoOp
  /\ run = NoRun

NextRace ==
  \E c \in Callers :
    \/ \E data \in StoreData, contentType \in StoreTypes, url \in StoreUrls :
         StoreBegin(c, data, contentType, url)
    \/ StoreStat(c)
    \/ StoreWrite(c)
    \/ StoreLoad(c)
    \/ StoreAppend(c)

SpecRace == InitRace /\ [][NextRace]_vars

\* ------------------------------------------------ deduplicateURLs on lists
\* lists of up to MaxEntries entries: the empty string, whitespace only,
\* two URLs, and one of them with whitespace around it
MaxEntries == 3
E_space == <<" ">>
E_tab == <<"\t">>
E_padded == <<" ">> \o U_b \o <<" ">>
UrlEntries == {<<>>, E_space, E_tab, U_a, U_b, E_padded}
EntryLists == UNION {[1..n -> UrlEntries] : n \in 0..MaxEntries}

\* one call of deduplicateURLs
CallDeduplicateURLs(list) ==
  /\ scenario = "dedupe"
  /\ lastOp = NoOp
  /\ lastOp' = [op |-> "deduplicateURLs", urls |-> list, ret |-> deduplicateURLs(list)]
  /\ UNCHANGED <<cfgVars, run, cancelled, proc, poolVars, fs, ds, ms>>

InitDedupe == scenario = "dedupe" /\ StorageInit /\ \A i \in Instances : ~ds[i].force

NextDedupe == \E list \in EntryLists : CallDeduplicateURLs(list)

SpecDedupe == InitDedupe /\ [][NextDedupe]_vars

\* ================================================================ claims
Range(s) == {s[i] : i \in 1..Len(s)}
Count(s, x) == Cardinality({i \in 1..Len(s) : s[i] = x})
SameMultiset(a, b) == \A x \in Range(a) \cup Range(b) : Count(a, x) = Count(b, x)
ResultURLs == [i \in 1..Len(results) |-> results[i].URL]

Done(p) == proc[p].pc = "ret"
InFetchSingle(p) == proc[p].pc \in {"request", "read", "sleep", "ret"}
AllWorkersExited == \A p \in Workers : proc[p].pc \in {"unstarted", "exited"}

\* a 200 response whose content type the validator accepts
GoodHeader(o) == o.err = <<>> /\ o.status = StatusOK /\ ValidateContentType(o.ctype) = NoError

\* C1: when FetchConcurrent returns (with at least one worker), the URLs of
\* the returned results are, as a multiset, the input URLs: N results for N
\* inputs, whatever the mix of successes, failures and cancellation.
C1_OneResultPerInput ==
  (mainpc = "done" /\ concurrency >= 1) => SameMultiset(ResultURLs, urls)

\* C2: with a context that is cancelled before the call, no worker ever enters
\* fetchSingle, and when the call returns every input URL has a result whose
\* Error is the context's error.
C2_CancelledBeforeCall ==
  (cancelledAtCall /\ concurrency >= 1) =>
     /\ \A p \in Workers : ~InFetchSingle(p)
     /\ mainpc = "done" =>
          /\ SameMultiset(ResultURLs, urls)
          /\ \A i \in 1..Len(results) : results[i].Error = CtxErr

\* C3: under fair scheduling every call of FetchConcurrent returns, and by
\* then every worker it started has left its loop.
C3_Terminates == <>(mainpc = "done" /\ AllWorkersExited)

C3_Witness ==
  /\ mainpc = "done"
  /\ AllWorkersExited
  /\ resultClosed
  /\ cancelled
  /\ concurrency >= 1
  /\ Len(urls) >= 2

\* C4: a successful result never carries more than maxSize bytes; a good 200
\* response whose body is exactly maxSize bytes succeeds with that body; one
\* whose body has maxSize+1 bytes or more, declared or not, ends in a
\* "file too large" error with nil Data.
C4_SizeGuard ==
  \A p \in Procs :
    LET st == proc[p] IN
    /\ (Done(p) /\ st.result.Error = NoError) => Len(st.result.Data) <= maxSize
    /\ (Done(p) /\ GoodHeader(st.last) /\ st.last.stream.err = <<>>
          /\ Len(st.last.stream.bytes) = maxSize)
         => (st.result.Error = NoError /\ st.result.Data = st.last.stream.bytes)
    /\ (Done(p) /\ GoodHeader(st.last) /\ Len(st.last.stream.bytes) >= maxSize + 1)
         => (st.result.Error.kind = "file too large" /\ st.result.DataNil
               /\ st.result.Data = <<>>)

C4_Witness ==
  \E p \in Procs :
    /\ Done(p)
    /\ maxSize >= 1
    /\ GoodHeader(proc[p].last)
    /\ proc[p].last.cl = -1
    /\ Len(proc[p].last.stream.bytes) = maxSize + 1
    /\ proc[p].result.Error.kind = "file too large"

\* C5: one fetchSingle call issues at most maxRetries + 1 requests and never
\* leaves the loop through the "unexpected error in retry loop" fallthrough.
C5_BoundedRequests ==
  \A p \in Procs :
    /\ proc[p].nreq <= DefaultMaxRetries + 1
    /\ proc[p].result.Error.kind # "unexpected error in retry loop"

C5_Witness ==
  \E p \in Procs :
    /\ Done(p)
    /\ proc[p].nreq = DefaultMaxRetries + 1
    /\ proc[p].result.Error.kind = "HTTP status"

\* C6: while the responses so far (at most maxRetries of them) all carry a
\* retryable status the call goes on, and when the next response is a good
\* 200 with a body within maxSize the call returns that body without error,
\* having slept once between consecutive requests.
C6_RetryThenSuccess ==
  \A p \in Procs :
    LET st == proc[p] IN
    /\ (st.allRetry /\ st.nreq >= 1 /\ st.nreq <= DefaultMaxRetries
          /\ IsRetryStatusOutcome(st.last))
         => st.pc \in {"sleep", "request"}
    /\ (Done(p) /\ st.allRetry /\ GoodHeader(st.last) /\ st.last.stream.err = <<>>
          /\ Len(st.last.stream.bytes) <= maxSize)
         => /\ st.result.Error = NoError
            /\ ~st.result.DataNil
            /\ st.result.Data = st.last.stream.bytes
            /\ st.attempt = st.nreq - 1
            /\ Len(st.delays) = st.nreq - 1

C6_Witness ==
  \E p \in Procs :
    /\ Done(p)
    /\ proc[p].allRetry
    /\ proc[p].nreq = DefaultMaxRetries + 1
    /\ proc[p].result.Error = NoError
    /\ Len(proc[p].result.Data) >= 1

\* C7: a response with a 4xx status other than 429 ends the call in the same
\* step: the error carries that status and the number of requests made, and
\* no sleep follows the response.
C7_NonRetryableStatus ==
  \A p \in Procs :
    LET st == proc[p] IN
    (st.last.err = <<>> /\ st.last.status >= 400 /\ st.last.status < 500
       /\ st.last.status # 429)
      => /\ Done(p)
         /\ st.result.Error = Err("HTTP status", st.last.status, st.nreq, <<>>)
         /\ Len(st.delays) = st.nreq - 1

C7_Witness ==
  \E p \in Procs :
    /\ Done(p)
    /\ proc[p].nreq = 1
    /\ proc[p].last.status = 404
    /\ proc[p].result.Error.code = 404

\* C8: a 200 response with a rejected content type, a declared length above
\* maxSize or a body above maxSize ends the call with an error at once, at
\* any attempt index: no sleep and no request follows it.
C8_ValidationNotRetried ==
  \A p \in Procs :
    LET st == proc[p] IN
    (st.last.err = <<>> /\ st.last.status = StatusOK
       /\ \/ ValidateContentType(st.last.ctype) # NoError
          \/ st.last.cl > maxSize
          \/ (st.pc # "read" /\ Len(st.last.stream.bytes) > maxSize))
      => /\ Done(p)
         /\ st.result.Error.kind \in {"content-type header is missing",
                                      "invalid content type for image", "file too large"}
         /\ st.result.DataNil
         /\ Len(st.delays) = st.nreq - 1

C8_Witness ==
  \E p \in Procs :
    /\ Done(p)
    /\ proc[p].attempt = 2
    /\ proc[p].last.status = StatusOK
    /\ proc[p].result.Error.kind = "invalid content type for image"

\* C9: every result has either non-empty Data and no Error, or an Error and
\* no Data; never no Error with empty Data, never both.
C9_DataXorError ==
  \A p \in Procs :
    Done(p) =>
      \/ (proc[p].result.Error = NoError /\ Len(proc[p].result.Data) > 0)
      \/ (proc[p].result.Error # NoError /\ proc[p].result.DataNil)

\* C10: a Store call on an instance without force whose computed path exists
\* when it is called returns "already exists" for that path and changes
\* neither the directory nor any tracked list.
C10_OverwriteProtection ==
  [][(lastOp' # lastOp /\ lastOp'.op = "Store" /\ ~lastOp'.force
        /\ lastOp'.path \in DOMAIN fs)
       => (lastOp'.err = "already exists" /\ lastOp'.ret = <<>> /\ fs' = fs /\ ds' = ds)]_vars

C10_Witness ==
  /\ lastOp.op = "Store"
  /\ lastOp.err = "already exists"
  /\ lastOp.path \in DOMAIN fs
  /\ fs[lastOp.path] = ExternalData
  /\ \A i \in Instances : Len(ds[i].files) = 0

\* the value of a sequence of decimal digits, -1 when it is not one
RECURSIVE NumValue(_)
NumValue(s) ==
  IF Len(s) = 0 THEN 0
  ELSE LET d == {n \in 0..9 : DigitChars[n + 1] = s[Len(s)]}
           rest == NumValue(SubSeq(s, 1, Len(s) - 1))
       IN IF d = {} \/ rest < 0 THEN -1 ELSE 10 * rest + (CHOOSE n \in d : TRUE)

\* s is k in decimal, zero-padded to at least two digits
ZeroPadded(s, k) ==
  /\ Len(s) >= 2
  /\ NumValue(s) = k
  /\ Len(s) > 2 => s[1] # "0"

\* path is <outputDir>/img-KK<ext> with KK the padded k and ext an extension
NamedAs(path, k) ==
  \E ext \in validExtensions \cup {X_bin} :
    LET prefix == OutputDir \o <<"/">> \o S_img
        cut == Len(path) - Len(ext)
    IN /\ cut >= Len(prefix)
       /\ SubSeq(path, 1, Len(prefix)) = prefix
       /\ SubSeq(path, cut + 1, Len(path)) = ext
       /\ ZeroPadded(SubSeq(path, Len(prefix) + 1, cut), k)

\* C11: on an instance on which Cleanup was never called, the k-th successful
\* Store writes its data to, and returns, <outputDir>/img-KK.<ext> with KK the
\* decimal of k padded to two digits: a successful Store takes the number
\* after the count of earlier successes, a failed Store takes none.
C11_SequentialNaming ==
  [][(lastOp' # lastOp /\ lastOp'.op = "Store" /\ ~ds[lastOp'.inst].cleaned)
       => LET i == lastOp'.inst
              k == ds[i].nstored + 1
          IN IF lastOp'.err = "nil"
             THEN /\ NamedAs(lastOp'.ret, k)
                  /\ lastOp'.ret \in DOMAIN fs'
                  /\ fs'[lastOp'.ret] = lastOp'.data
                  /\ ds'[i].nstored = k
                  /\ ds'[i].files = Append(ds[i].files, lastOp'.ret)
             ELSE /\ ds'[i].nstored = ds[i].nstored
                  /\ ds'[i].files = ds[i].files]_vars

C11_Witness ==
  /\ lastOp.op = "Store"
  /\ lastOp.err = "nil"
  /\ ~ds[lastOp.inst].cleaned
  /\ ds[lastOp.inst].nstored = 2
  /\ lastOp.ret = ds[lastOp.inst].files[2]
  /\ NamedAs(lastOp.ret, 2)

\* C12: a Store call with zero-length data, on the disk or the memory backend
\* and whatever they hold already, returns an error and leaves the directory,
\* the tracked files and the stored images exactly as they were.
C12_EmptyStoreRejected ==
  [][(lastOp' # lastOp /\ lastOp'.op \in {"Store", "MemStore"} /\ Len(lastOp'.data) = 0)
       => /\ lastOp'.err = "cannot store empty data"
          /\ lastOp'.ret = <<>>
          /\ fs' = fs
          /\ ds' = ds
          /\ ms' = ms]_vars

C12_Witness ==
  /\ lastOp.op \in {"Store", "MemStore"}
  /\ Len(lastOp.data) = 0
  /\ lastOp.err = "cannot store empty data"
  /\ Len(ds[1].files) >= 1
  /\ Len(ms) >= 1

\* the content types the documentation accepts
AcceptedTypes == {T_png, T_jpeg, T_jpg, T_gif, T_webp, T_svg, T_bmp, T_tiff, T_xicon, T_msicon}

\* t lower-cased, cut at its first ';' wherever that is, and trimmed
Normalized(t) ==
  LET lower == ToLower(t)
      idx == Index(lower, <<";">>)
  IN TrimSpace(IF idx >= 0 THEN SubSeq(lower, 1, idx) ELSE lower)

\* C14: ValidateContentType(t) returns nil exactly when t, lower-cased, cut at
\* the first ';' and trimmed, is one of the ten accepted types; the empty
\* string is rejected.
C14_AcceptedExactly ==
  lastOp.op = "ValidateContentType" =>
    /\ (lastOp.err = NoError) <=> (Normalized(lastOp.contentType) \in AcceptedTypes)
    /\ lastOp.contentType = <<>> => lastOp.err # NoError

C14_Witness ==
  /\ lastOp.op = "ValidateContentType"
  /\ lastOp.contentType = <<"\t">> \o T_msicon \o <<"\n">>
  /\ lastOp.err = NoError

\* C15: GetFileExtensionFromContentType(t) differs from ".bin" exactly when
\* ValidateContentType(t) returns nil.
C15_ValidatorAgreesWithExtension ==
  lastOp.op = "GetFileExtensionFromContentType" =>
    ((lastOp.ret # X_bin) <=> (ValidateContentTypeOn[lastOp.contentType] = NoError))

C15_Witness ==
  /\ lastOp.op = "GetFileExtensionFromContentType"
  /\ lastOp.contentType = ToUpper(T_xicon)
  /\ lastOp.ret = X_ico

\* url up to, not including, the first occurrence of the character c
Before(url, c) ==
  LET idx == Index(url, <<c>>) IN IF idx >= 0 THEN SubSeq(url, 1, idx) ELSE url

\* the path of a URL: what follows scheme://authority, without query string
\* and fragment; a reference without a scheme is a path as a whole
UrlPath(url) ==
  LET bare == Before(Before(url, "#"), "?")
      sep == Index(bare, <<":", "/", "/">>)
      rest == IF sep >= 0 THEN SubSeq(bare, sep + 4, Len(bare)) ELSE bare
      slash == Index(rest, <<"/">>)
  IN IF sep < 0 THEN bare
     ELSE IF slash < 0 THEN <<>>
     ELSE SubSeq(rest, slash + 1, Len(rest))

\* the recognized image extension of the URL path, lower-cased, or empty
UrlPathExtension(url) ==
  LET ext == ToLower(PathExt(UrlPath(url)))
  IN IF ext \in {X_png, X_jpg, X_jpeg, X_gif, X_webp, X_svg, X_bmp, X_tiff, X_ico}
     THEN ext ELSE <<>>

\* C16: DetermineExtension returns the extension of the content type when that
\* is a recognized image type, whatever the URL; otherwise the recognized
\* image extension of the URL path (query string and fragment removed);
\* otherwise ".bin"; never the empty string.
C16_DetermineExtension ==
  lastOp.op = "DetermineExtension" =>
    /\ lastOp.ret # <<>>
    /\ lastOp.ret =
         IF Normalized(lastOp.contentType) \in AcceptedTypes
         THEN GetFileExtensionFromContentTypeOn[lastOp.contentType]
         ELSE IF UrlPathExtension(lastOp.url) # <<>> THEN UrlPathExtension(lastOp.url)
         ELSE X_bin

\* the tracked files of instance i whose deletion did not succeed in this step
NotDeleted(i) ==
  {k \in 1..Len(ds[i].files) :
     ds[i].files[k] \notin DOMAIN fs \/ ds[i].files[k] \in DOMAIN fs'}

\* C17: after Cleanup returns, with or without failed deletions, every tracked
\* file that could be deleted is gone and the tracked list is empty; when a
\* deletion failed the error names the first tracked file that failed.
C17_CleanupResets ==
  [][(lastOp' # lastOp /\ lastOp'.op = "Cleanup")
       => LET i == lastOp'.inst
          IN /\ ds'[i].files = <<>>
             /\ (lastOp'.err = "nil") <=> (NotDeleted(i) = {})
             /\ NotDeleted(i) # {} =>
                  lastOp'.path = ds[i].files[CHOOSE k \in NotDeleted(i) :
                                               \A j \in NotDeleted(i) : k <= j]]_vars

\* the patterns the documentation lists
S_sudo == <<"s","u","d","o">>
Denylisted == {S_sus1, S_sudo, S_sus3, S_sus5, S_sus6}

\* C20: ValidateClaudeInput returns an error when the prompt is empty, when
\* no image reference is non-empty, or when the lower-cased prompt contains
\* a listed pattern; it returns nil only for a non-empty prompt free of the
\* patterns with at least one non-empty image reference.
C20_ClaudeInputValidated ==
  lastOp.op = "ValidateClaudeInput" =>
    LET bad == \/ lastOp.prompt = <<>>
               \/ \A k \in 1..Len(lastOp.images) : lastOp.images[k] = <<>>
               \/ \E pat \in Denylisted : Contains(ToLower(lastOp.prompt), pat)
    IN /\ bad => lastOp.err # NoError
       /\ lastOp.err = NoError => ~bad

\* sub holds the elements of full at the positions idx, in the same order
Picks(sub, full, idx) ==
  /\ Len(sub) = Cardinality(idx)
  /\ \A j \in idx : sub[Cardinality({i \in idx : i <= j})] = full[j]

Succeeded == {i \in 1..Len(results) : results[i].Error = NoError}

\* C18: once FetchConcurrent has returned, the run has failed with 'No images
\* could be downloaded' exactly when no result has Error nil; otherwise it
\* is in (or past) the storage stage and the results handed to that stage
\* are the successful ones, all of them, in result order.
C18_PartialFailure ==
  (scenario = "pipeline" /\ run.pc \notin {"none", "download"}) =>
    /\ (run.pc = "done" /\ run.err = "No images could be downloaded") <=> (Succeeded = {})
    /\ Succeeded # {} =>
         /\ run.pc \in {"open", "store", "done"}
         /\ Picks(run.successfulResults, results, Succeeded)

\* a batch with a failed and a successful URL has reached the storage loop
C18_Witness ==
  /\ scenario = "pipeline"
  /\ run.pc = "store"
  /\ Succeeded # {}
  /\ \E i \in 1..Len(results) : results[i].Error # NoError

\* the storage loop has been entered
InStorage == scenario = "pipeline" /\ run.pc \in {"store", "done"} /\ run.k >= 1

Stored == {j \in 1..Len(run.calls) : run.calls[j].err = "nil"}

\* Store was called once for each successful result handled so far, in
\* order and with its data, type and URL, by the storage of the mode; no
\* result is skipped before the run goes on; the output list holds what the
\* calls without error returned
StoreLoop ==
  InStorage =>
    /\ Len(run.calls) = run.k - 1
    /\ Len(run.calls) <= Len(run.successfulResults)
    /\ run.pc = "done" => Len(run.calls) = Len(run.successfulResults)
    /\ \A j \in 1..Len(run.calls) :
         /\ run.calls[j].data = run.successfulResults[j].Data
         /\ run.calls[j].contentType = run.successfulResults[j].ContentType
         /\ run.calls[j].url = run.successfulResults[j].URL
    /\ Len(run.calls) >= 1 =>
         /\ lastOp.op = (IF run.outDir # <<>> THEN "Store" ELSE "MemStore")
         /\ lastOp.data = run.successfulResults[Len(run.calls)].Data
         /\ lastOp.err = run.calls[Len(run.calls)].err
    /\ Picks(run.imageData, [j \in 1..Len(run.calls) |-> run.calls[j].ret], Stored)
    /\ (run.pc = "done" /\ run.sendPrompt = <<>>) => run.err = "nil"

\* the run failed after the storage stage for a reason that is not a Store:
\* the Claude CLI is missing, its execution failed, or the prompt is refused
\* even with an image
OtherCause ==
  \/ run.claude \in {"unavailable", "failed"}
  \/ run.claude = "refused" /\ ValidateClaudeInput(run.sendPrompt, <<I_file>>) # NoError

\* C19 as stated: the loop calls Store once per successful result in order,
\* failed or not, and a run that fails after the storage stage always has a
\* cause other than failed Stores.
C19_StoreFailureNeverFailsRun ==
  /\ StoreLoop
  /\ (InStorage /\ run.pc = "done" /\ run.err # "nil") => OtherCause

\* C19: the loop calls Store once per successful result in order, failed or
\* not; a failed Store leaves that image out of the output list; the run
\* fails after the storage stage only for another cause or, with --send,
\* when every Store failed and the Claude stage refuses the empty list.
C19_StoreFailureSkipped ==
  /\ StoreLoop
  /\ (InStorage /\ run.pc = "done" /\ run.err # "nil") =>
       \/ OtherCause
       \/ /\ run.sendPrompt # <<>>
          /\ run.imageData = <<>>
          /\ run.err = "Invalid Claude input"
  /\ (InStorage /\ run.pc = "done" /\ run.claude = "executed") => run.imageData # <<>>

\* in disk mode the first Store failed, the second was made and succeeded,
\* and the run ended without error
C19_Witness ==
  /\ InStorage
  /\ run.pc = "done"
  /\ run.outDir # <<>>
  /\ Len(run.calls) = 2
  /\ run.calls[1].err # "nil"
  /\ run.calls[2].err = "nil"
  /\ run.err = "nil"

\* the position at which the entry e first occurs in the collected list,
\* surrounding white space aside (0 when it does not occur)
FirstOccurrence(e) ==
  LET at == {k \in 1..Len(lastOp.urls) : TrimSpace(lastOp.urls[k]) = e}
  IN IF at = {} THEN 0 ELSE CHOOSE k \in at : \A h \in at : k <= h

\* C13: the list ExtractImageURLs returns holds no string twice, each of
\* its entries occurs in the collected list (AST destinations, then pattern
\* matches, then resolved reference usages), and the entries are in the
\* order of their first occurrences there.
C13_NoDuplicatesFirstOccurrenceOrder ==
  lastOp.op = "ExtractImageURLs" =>
    /\ \A i, j \in 1..Len(lastOp.ret) : i # j => lastOp.ret[i] # lastOp.ret[j]
    /\ \A i \in 1..Len(lastOp.ret) : FirstOccurrence(lastOp.ret[i]) # 0
    /\ \A i, j \in 1..Len(lastOp.ret) :
         i < j => FirstOccurrence(lastOp.ret[i]) < FirstOccurrence(lastOp.ret[j])
    /\ \A k \in 1..Len(lastOp.urls) : \E i \in 1..Len(lastOp.ret) :
         lastOp.ret[i] = TrimSpace(lastOp.urls[k])

\* a document whose collected list repeats a URL between two others: two
\* different entries are returned and a repetition was dropped
C13_Witness ==
  /\ lastOp.op = "ExtractImageURLs"
  /\ Len(lastOp.ret) >= 2
  /\ \E a, b, c \in 1..Len(lastOp.urls) :
       a < b /\ b < c /\ lastOp.urls[a] = lastOp.urls[c] /\ lastOp.urls[a] # lastOp.urls[b]

\* what the workers have published and the collector has not lost: the
\* collected results followed by the content of the result channel
Published == results \o resultChan

IsPrefix(a, b) == Len(a) <= Len(b) /\ SubSeq(b, 1, Len(a)) = a

\* C21: the result channel is closed only when every started worker has
\* left its loop, and no worker ever sends on the closed channel; a published
\* result stays in the channel until it is collected, and when
\* FetchConcurrent returns every worker has terminated and the channel is
\* empty, so every published result is in the returned list.
C21_PoolDrains ==
  /\ [](/\ resultClosed => AllWorkersExited
        /\ \A p \in Workers : proc[p].pc # "panic"
        /\ mainpc = "done" => (AllWorkersExited /\ resultChan = <<>>))
  /\ [][IsPrefix(Published, results' \o resultChan') /\ IsPrefix(results, results')]_vars

\* a call with two workers has returned two results, one of them a failure
C21_Witness ==
  /\ mainpc = "done"
  /\ concurrency >= 2
  /\ Len(results) >= 2
  /\ resultClosed
  /\ \E i \in 1..Len(results) : results[i].Error # NoError
  /\ \E i \in 1..Len(results) : results[i].Error = NoError

\* C22: for a non-empty batch the reporter receives Start(len(urls)) first
\* and once, then one Update per collected result, numbered 1, 2, ... and
\* carrying whether that result has no Error, then Finish once, which is
\* there when FetchConcurrent has returned and not before.
C22_ReporterProtocol ==
  (scenario = "pool" /\ Len(urls) > 0 /\ mainpc # "call") =>
    /\ Len(report) = 1 + Len(results) + (IF mainpc = "done" THEN 1 ELSE 0)
    /\ report[1] = Event("Start", Len(urls), TRUE)
    /\ \A i \in 1..Len(results) :
         report[1 + i] = Event("Update", i, results[i].Error = NoError)
    /\ mainpc = "done" => report[Len(report)] = Event("Finish", 0, TRUE)

\* a returned batch with a successful and a failed result, reported in the
\* order in which they were collected
C22_Witness ==
  /\ mainpc = "done"
  /\ Len(report) = 4
  /\ report[2].ok
  /\ ~report[3].ok
  /\ report[4].op = "Finish"

\* the places one occurrence of url x can be in during a batch
Unsent == SubSeq(urls, sent + 1, Len(urls))
Holders(x) == {p \in Workers : proc[p].pc \in {"select", "request", "read", "sleep", "ret"}
                                /\ proc[p].url = x}
ChanURLs == [i \in 1..Len(resultChan) |-> resultChan[i].URL]
Occurrences(x) ==
  Count(Unsent, x) + Count(urlChan, x) + Cardinality(Holders(x))
    + Count(ChanURLs, x) + Count(ResultURLs, x)

\* C23: while the context is not cancelled and there is at least one worker,
\* every occurrence of an input URL is in exactly one place: not yet sent,
\* queued, held by exactly one worker (which fetches it once), published, or
\* collected; a fetch is only ever entered for the URL the worker dequeued;
\* and when FetchConcurrent has returned the results are, as a multiset of
\* URLs, the inputs, each produced by fetchSingle.
C23_EachURLOnce ==
  /\ [](( scenario = "pool" /\ ~cancelled /\ concurrency >= 1) =>
          /\ \A x \in PoolUrls : Occurrences(x) = Count(urls, x)
          /\ mainpc = "done" =>
               /\ Len(results) = Len(urls)
               /\ SameMultiset(ResultURLs, urls)
               /\ \A i \in 1..Len(results) : results[i].Error # CtxErr)
  /\ [][\A p \in Workers :
          (~cancelled /\ proc[p].pc = "select" /\ proc'[p].pc # "select") =>
             (proc'[p].pc = "request" /\ proc'[p].url = proc[p].url
                /\ proc'[p].nreq = 0)]_vars

\* an uncancelled batch of the same URL twice, taken by two workers, returned
C23_Witness ==
  /\ mainpc = "done" /\ ~cancelled /\ concurrency = 2
  /\ urls = <<U_a, U_a>>
  /\ ResultURLs = <<U_a, U_a>>
  /\ \A p \in Workers : proc[p].pc = "exited"

Started == {p \in Workers : proc[p].pc # "unstarted"}
Fetching == {p \in Workers : InFetchSingle(p)}

\* what about the pool's width holds for every list: never more than
\* `concurrency` workers, all of them started before the first URL is sent,
\* and never more than `concurrency` URLs in fetchSingle
WidthBounded ==
  /\ [](scenario = "pool" =>
          /\ spawned <= concurrency
          /\ Cardinality(Started) = spawned
          /\ Cardinality(Fetching) <= concurrency)
  /\ [][spawned' # spawned => (mainpc = "spawn" /\ sent = 0 /\ spawned' = spawned + 1)]_vars

\* C24 as stated: once the workers have been started and for the rest of the
\* batch exactly `concurrency` workers exist, whatever the length of the list
C24_Original ==
  (scenario = "pool" /\ (mainpc \in {"collect", "done"} \/ sent > 0)) =>
     spawned = concurrency

\* C24: for a non-empty list FetchConcurrent starts exactly `concurrency`
\* workers before it sends the first URL, and for an empty list it returns
\* without starting any; it never starts more during the batch, and at every
\* moment at most `concurrency` URLs are being fetched.
C24_PoolWidth ==
  /\ WidthBounded
  /\ [](scenario = "pool" =>
          /\ (Len(urls) > 0 /\ (mainpc \in {"collect", "done"} \/ sent > 0)) =>
                spawned = concurrency
          /\ Len(urls) = 0 => spawned = 0)

\* two workers, both inside fetchSingle at once
C24_Witness ==
  /\ concurrency = 2 /\ spawned = 2
  /\ Cardinality(Fetching) = 2
  /\ Len(urls) = 2

\* the empty list with a positive width: returned, no worker was started
C24_EmptyWitness ==
  /\ scenario = "pool" /\ mainpc = "done" /\ Len(urls) = 0 /\ concurrency = 2 /\ spawned = 0

\* C25: a worker that finds the context cancelled when it checks, which it
\* does for every URL after dequeuing it, does not enter fetchSingle: it
\* publishes the context's error for that URL and exits. So a URL dequeued
\* after the cancellation is never fetched and no request is made for it.
C25_CheckedBeforeEachURL ==
  /\ [][\A p \in Workers :
          /\ (proc[p].pc = "recv" /\ proc'[p].pc # "recv") =>
                proc'[p].pc \in {"select", "exited"}
          /\ (cancelled /\ proc[p].pc = "select" /\ proc'[p].pc # "select") =>
                /\ proc'[p].pc \in {"exited", "panic"}
                /\ proc'[p].pc = "exited" =>
                     /\ proc'[p].nreq = 0
                     /\ resultChan' =
                          Append(resultChan, [NewResult(proc[p].url) EXCEPT !.Error = CtxErr])]_vars
  /\ [](\A p \in Workers : proc[p].pc = "select" => proc[p].nreq = 0)

\* a batch cancelled while both URLs were still queued: both results carry
\* the context's error
C25_Witness ==
  /\ mainpc = "done" /\ cancelled /\ Len(results) = 2
  /\ \A i \in 1..2 : results[i].Error = CtxErr

\* a fetch on which the cancellation arrived while it was in progress
HitInFlight(p) == proc[p].atCancel >= 0
\* the requests it started after the cancellation
LateRequests(p) == proc[p].nreq - proc[p].atCancel

\* C26: a fetch cancelled in progress starts at most one further request and
\* then returns a result with an Error (a body that was read completely in
\* spite of the cancellation is not held against it); it does not panic, its
\* loop is bounded, and a request started after the cancellation never gives
\* a success.
C26_CancelInFlight ==
  \A p \in Procs : HitInFlight(p) =>
    /\ LateRequests(p) <= 1
    /\ proc[p].pc # "panic"
    /\ proc[p].attempt <= maxRetries + 1
    /\ Done(p) =>
         \/ proc[p].result.Error # NoError
         \/ LateRequests(p) = 0 /\ proc[p].last.stream.err = <<>>

\* what holds of a fetch cancelled in progress: every request after the
\* cancellation fails with the context's error, so a success can only come
\* from a request started before it, and the loop stays bounded by maxRetries
C26_LateRequestsFail ==
  \A p \in Procs : HitInFlight(p) =>
    /\ LateRequests(p) <= maxRetries
    /\ proc[p].nreq <= maxRetries + 1
    /\ proc[p].pc # "panic"
    /\ (Done(p) /\ proc[p].result.Error = NoError) =>
          (LateRequests(p) = 0 /\ proc[p].last.stream.err = <<>>)

\* the URL with "timeout" in its text, cancelled during the first request:
\* three requests after the one that was in flight
C26_Witness ==
  /\ scenario = "single"
  /\ HitInFlight(0) /\ proc[0].atCancel = 1
  /\ proc[0].url = U_timeout
  /\ LateRequests(0) = 3
  /\ Done(0)

\* C27: when every response of a call carried a retryable status, the call
\* has returned exactly when maxRetries + 1 requests were made, having slept
\* maxRetries times, and its Error names the last status and the attempt
\* count maxRetries + 1.
C27_RetryExhaustion ==
  \A p \in Procs :
    LET st == proc[p] IN
    (st.nreq >= 1 /\ st.allRetry /\ IsRetryStatusOutcome(st.last)) =>
      /\ st.nreq <= maxRetries + 1
      /\ Done(p) <=> st.nreq = maxRetries + 1
      /\ Done(p) =>
           /\ st.result.Error = Err("HTTP status", st.last.status, maxRetries + 1, <<>>)
           /\ st.result.Error # NoError
           /\ st.result.DataNil
           /\ Len(st.delays) = maxRetries

\* four responses 503, 500, 429, ... and the call has returned
C27_Witness ==
  /\ scenario = "single"
  /\ Done(0)
  /\ proc[0].allRetry /\ proc[0].nreq = maxRetries + 1
  /\ proc[0].last.err = <<>> /\ proc[0].last.status = 504
  /\ proc[0].result.Error.attempts = 4

\* the six transient-class signatures, looked for in the lower-cased text of
\* the error; the text of a failed request is that of the *url.Error, which
\* names the method and the URL before the cause
TransientSignatures == {S_retry1, S_retry2, S_retry3, S_retry4, S_retry5, S_retry6}
MatchesSignature(err) == \E s \in TransientSignatures : Contains(ToLower(err), s)
MatchesSignatureOn == [err \in RequestErrors |-> MatchesSignature(err)]

\* the attempt index at which the last request of p was made
LastAttempt(p) == IF proc[p].pc = "request" THEN proc[p].attempt - 1 ELSE proc[p].attempt

\* C28: after a request that failed at network level, the call sleeps and
\* goes on to the next attempt exactly when the error's text matches one of
\* the transient signatures and the attempt index is below maxRetries;
\* otherwise it has returned, without a sleep, an error that wraps the cause
\* and gives the number of attempts made.
C28_NetworkRetry ==
  \A p \in Procs :
    LET st == proc[p] IN
    (st.nreq >= 1 /\ st.last.err # <<>>) =>
      /\ st.pc \in {"sleep", "request", "ret"}
      /\ st.pc \in {"sleep", "request"}
           <=> (MatchesSignatureOn[st.last.err] /\ LastAttempt(p) < maxRetries)
      /\ st.pc = "ret" =>
           /\ st.result.Error = Err("HTTP request failed", 0, LastAttempt(p) + 1, st.last.err)
           /\ st.nreq = LastAttempt(p) + 1
           /\ Len(st.delays) = st.nreq - 1
      /\ st.pc = "sleep" => Len(st.delays) = st.nreq - 1
      /\ st.pc = "request" => Len(st.delays) = st.nreq

\* a refused connection retried to exhaustion
C28_Witness ==
  /\ scenario = "single"
  /\ Done(0)
  /\ proc[0].last.err = UrlError(U_a, E_refused)
  /\ proc[0].nreq = maxRetries + 1
  /\ proc[0].result.Error.attempts = maxRetries + 1

\* the last response of p was a good 200 whose body read ended with an error
ReadFailed(p) ==
  /\ proc[p].nreq >= 1
  /\ proc[p].pc # "read"
  /\ GoodHeader(proc[p].last)
  /\ ~ContentLengthTooLarge(proc[p].last.cl)
  /\ ReadAllLimited(proc[p].last.stream, maxSize + 1).err # <<>>

\* C29: after a body read that failed, the call sleeps and goes on only when
\* the read error matches a transient signature and the attempt index is
\* below maxRetries; after a read error that is not transient it has
\* returned with an error, without a sleep or a further request.
C29_BodyReadRetry ==
  \A p \in Procs :
    LET st == proc[p] IN
    ReadFailed(p) =>
      /\ st.pc \in {"sleep", "request"} =>
           (MatchesSignature(st.last.stream.err) /\ LastAttempt(p) < maxRetries)
      /\ ~MatchesSignature(st.last.stream.err) =>
           /\ Done(p)
           /\ st.result.Error # NoError
           /\ Len(st.delays) = st.nreq - 1

\* what the code does after a failed body read: it retries whatever the
\* error is while the attempt index is below maxRetries, and at the last
\* attempt returns the wrapped error with the attempt count
C29_AnyReadErrorRetried ==
  \A p \in Procs :
    LET st == proc[p] IN
    ReadFailed(p) =>
      /\ st.pc \in {"sleep", "request"} <=> LastAttempt(p) < maxRetries
      /\ Done(p) =>
           /\ st.result.Error = Err("failed to read response body", 0, maxRetries + 1,
                                    st.last.stream.err)
           /\ st.nreq = maxRetries + 1

\* a body cut short by "unexpected EOF" at the first attempt, and the call
\* is in its backoff sleep
C29_Witness ==
  /\ scenario = "single" /\ ~cancelled
  /\ ReadFailed(0)
  /\ proc[0].last.stream.err = E_eof
  /\ proc[0].attempt = 0
  /\ proc[0].pc = "sleep"

\* d is min(MaxDelay, base * 2^a + j) for a jitter j of at most a quarter of
\* base * 2^a, and lies between 500 ms * 2^a and 10 s
BackoffWithin(a, d) ==
  LET b == DefaultBaseDelay * (2 ^ a) IN
  /\ \E j \in 0..(b \div 4) : d = (IF b + j > MaxDelay THEN MaxDelay ELSE b + j)
  /\ d >= 500 * (2 ^ a)
  /\ d <= 10000

\* C30: for every attempt index a in 0..maxRetries the backoff delay is
\* min(maxDelay, baseDelay * 2^a + j) with 0 <= j <= 25% of baseDelay * 2^a,
\* maxDelay being 10 s; with the default base delay of 500 ms it is at least
\* 500 ms * 2^a and at most 10 s. So is every delay a call has slept.
C30_BackoffDelay ==
  /\ MaxDelay = 10000
  /\ DefaultBaseDelay = 500
  /\ \A a \in 0..maxRetries : BackoffWithin(a, calculateBackoffDelay(a))
  /\ \A p \in Procs : \A k \in 1..Len(proc[p].delays) :
       BackoffWithin(k - 1, proc[p].delays[k])

\* a call that has slept after the attempts 0, 1 and 2
C30_Witness ==
  /\ scenario = "single"
  /\ Len(proc[0].delays) = maxRetries
  /\ proc[0].delays[1] < proc[0].delays[2]
  /\ proc[0].delays[2] < proc[0].delays[3]

\* min(10 s, baseDelay * 2^a), in milliseconds
ExactBackoff(a) ==
  IF DefaultBaseDelay * (2 ^ a) > 10000 THEN 10000 ELSE DefaultBaseDelay * (2 ^ a)

\* C31: the backoff delay has no random part: for every attempt index a the
\* delay is exactly min(10 s, baseDelay * 2^a), so the k-th sleep of every
\* call is the same value, the delays of successive attempts do not decrease,
\* and with the defaults they are 500 ms, 1 s and 2 s.
C31_BackoffDeterministic ==
  /\ \A a \in 0..maxRetries : calculateBackoffDelay(a) = ExactBackoff(a)
  /\ \A a \in 0..(maxRetries - 1) : calculateBackoffDelay(a) <= calculateBackoffDelay(a + 1)
  /\ \A p \in Procs :
       /\ IsPrefix(proc[p].delays, <<500, 1000, 2000>>)
       /\ \A k \in 1..Len(proc[p].delays) : proc[p].delays[k] = ExactBackoff(k - 1)

\* a call that has slept three times: 500 ms, 1 s, 2 s
C31_Witness ==
  /\ scenario = "single"
  /\ proc[0].delays = <<500, 1000, 2000>>
  /\ proc[0].pc = "request"

\* the sleeps of a call lie between its requests: one fewer than the
\* requests made once a response is in hand, as many as the requests when
\* the next request is about to be made, and the sleep after attempt a lasts
\* calculateBackoffDelay(a)
SleepsBetweenRequests ==
  /\ [](\A p \in Procs : InFetchSingle(p) =>
          /\ (proc[p].nreq >= 1 /\ proc[p].pc \in {"read", "sleep", "ret"}) =>
                Len(proc[p].delays) = proc[p].nreq - 1
          /\ proc[p].pc = "request" =>
                (Len(proc[p].delays) = proc[p].nreq /\ proc[p].attempt = proc[p].nreq)
          /\ \A k \in 1..Len(proc[p].delays) :
                proc[p].delays[k] = calculateBackoffDelay(k - 1))
  /\ [][\A p \in Procs :
          (InFetchSingle(p) /\ proc'[p].delays # proc[p].delays /\ proc'[p].pc # "unstarted"
             /\ proc'[p].url = proc[p].url /\ proc'[p].delays # <<>>) =>
            /\ proc[p].pc = "sleep"
            /\ proc'[p].pc = "request"
            /\ proc[p].attempt = proc[p].nreq - 1
            /\ proc'[p].delays =
                 Append(proc[p].delays, calculateBackoffDelay(proc[p].attempt))]_vars

\* C32 as stated: in every run, when the call has returned, the number of
\* backoff sleeps is the number of HTTP requests minus one
C32_Original ==
  \A p \in Procs : Done(p) => Len(proc[p].delays) = proc[p].nreq - 1

\* C32: fetchSingle sleeps only between two consecutive requests: a call
\* that has made at least one request has returned with one sleep fewer than
\* requests, the sleep after attempt a being calculateBackoffDelay(a); a call
\* whose request cannot be built returns with no request and no sleep.
C32_SleepsBetweenRequests ==
  /\ SleepsBetweenRequests
  /\ [](\A p \in Procs : Done(p) =>
          /\ proc[p].nreq >= 1 => Len(proc[p].delays) = proc[p].nreq - 1
          /\ proc[p].nreq = 0 =>
               /\ proc[p].delays = <<>>
               /\ proc[p].result.Error = Err("failed to create request", 0, 0, proc[p].url))

\* four requests, three sleeps, returned
C32_Witness ==
  /\ scenario = "single"
  /\ Done(0)
  /\ proc[0].nreq = maxRetries + 1
  /\ Len(proc[0].delays) = maxRetries

\* the URL with an invalid percent escape: returned without request or sleep
C32_NoRequestWitness ==
  /\ scenario = "single"
  /\ Done(0)
  /\ proc[0].url = U_bad
  /\ proc[0].nreq = 0

\* C33: the result of a returned call carries the requested URL and a Size
\* equal to the length of its Data; without Error its Data is the body that
\* was read and its ContentType the header value that passed validation;
\* with an Error its Data is nil and its Size 0. The same holds of every
\* result a worker publishes.
C33_ResultShape ==
  /\ \A p \in Procs : Done(p) =>
       LET r == proc[p].result IN
       /\ r.URL = proc[p].url
       /\ r.Size = Len(r.Data)
       /\ r.Error = NoError =>
            /\ ~r.DataNil
            /\ r.Data = proc[p].last.stream.bytes
            /\ r.ContentType = proc[p].last.ctype
            /\ ValidateContentTypeOf[r.ContentType] = NoError
       /\ r.Error # NoError => (r.DataNil /\ r.Data = <<>> /\ r.Size = 0)
  /\ \A i \in 1..Len(Published) :
       /\ Published[i].Size = Len(Published[i].Data)
       /\ Published[i].Error # NoError =>
            (Published[i].DataNil /\ Published[i].Size = 0)

\* a success with a body of maxSize bytes after a retry
C33_Witness ==
  /\ scenario = "single"
  /\ Done(0)
  /\ proc[0].result.Error = NoError
  /\ maxSize = MaxSizeBound
  /\ proc[0].result.Size = maxSize
  /\ proc[0].nreq = 2

\* C34: a Store call with data on an instance with force whose computed path
\* exists when it is called is never refused because of that file: unless
\* the write itself fails, it returns the path without error, the file holds
\* exactly the stored data, every other file is as it was, and the tracked
\* list, hence Count(), has grown by one.
C34_ForceOverwrites ==
  [][(lastOp' # lastOp /\ lastOp'.op = "Store" /\ lastOp'.force
        /\ Len(lastOp'.data) > 0 /\ lastOp'.path \in DOMAIN fs)
       => LET i == lastOp'.inst
              path == lastOp'.path
          IN /\ lastOp'.err \in {"nil", "failed to write file"}
             /\ lastOp'.err = "nil" =>
                  /\ lastOp'.ret = path
                  /\ DOMAIN fs' = DOMAIN fs
                  /\ fs'[path] = lastOp'.data
                  /\ \A q \in DOMAIN fs \ {path} : fs'[q] = fs[q]
                  /\ ds'[i].files = Append(ds[i].files, path)
                  /\ Len(ds'[i].files) = Len(ds[i].files) + 1]_vars

\* instance 2 (no force) has stored img-01 and instance 1 (force) has then
\* stored other data under the same name
C34_Witness ==
  /\ scenario = "disk"
  /\ ds[1].force /\ ~ds[2].force
  /\ ~ds[1].cleaned /\ ~ds[2].cleaned
  /\ Len(ds[1].files) = 1 /\ ds[2].files = ds[1].files
  /\ lastOp.op = "Store" /\ lastOp.inst = 1 /\ lastOp.err = "nil"
  /\ lastOp.ret = ds[1].files[1]
  /\ lastOp.data = <<1, 2>>
  /\ fs[lastOp.ret] = <<1, 2>>

\* C35: Count() follows the successful Stores: a Store that returns a value
\* raises the Count() of its backend by one and one that returns an error
\* leaves it as it was; Clear and a Cleanup without error set it to zero;
\* nothing else changes it (a Cleanup that fails leaves it too). So Count()
\* is the number of successful Stores since construction or the last Clear or
\* successful Cleanup. It is always the length of GetFiles() on disk and of
\* the stored images in memory.
C35_CountTracksStores ==
  /\ [](scenario = "storage" => \A i \in Instances : DiskCount(i) = Len(GetFiles(i)))
  /\ [][ /\ \A i \in Instances :
              (lastOp' # lastOp /\ lastOp'.op = "Store" /\ lastOp'.inst = i) =>
                /\ DiskCount(i)' = DiskCount(i) + (IF lastOp'.err = "nil" THEN 1 ELSE 0)
                /\ MemCount' = MemCount
         /\ (lastOp' # lastOp /\ lastOp'.op = "MemStore") =>
            /\ MemCount' = MemCount + (IF lastOp'.err = "nil" THEN 1 ELSE 0)
            /\ \A i \in Instances : DiskCount(i)' = DiskCount(i)
         /\ (lastOp' # lastOp /\ lastOp'.op = "Clear") => MemCount' = 0
         /\ \A i \in Instances :
              (lastOp' # lastOp /\ lastOp'.op = "Cleanup" /\ lastOp'.inst = i) =>
                DiskCount(i)' = (IF lastOp'.err = "nil" THEN 0 ELSE DiskCount(i))
         /\ MemCount' # MemCount =>
              \/ lastOp'.op = "MemStore" /\ lastOp'.err = "nil" /\ MemCount' = MemCount + 1
              \/ lastOp'.op = "Clear" /\ MemCount' = 0
         /\ \A i \in Instances : DiskCount(i)' # DiskCount(i) =>
              \/ /\ lastOp'.op = "Store" /\ lastOp'.inst = i /\ lastOp'.err = "nil"
                 /\ DiskCount(i)' = DiskCount(i) + 1
              \/ /\ lastOp'.op = "Cleanup" /\ lastOp'.inst = i /\ lastOp'.err = "nil"
                 /\ DiskCount(i)' = 0]_vars

\* one file on disk after a second Store that was refused, and images in
\* memory stored after a Clear
C35_Witness ==
  /\ scenario = "storage"
  /\ DiskCount(1) = 1 /\ ~ds[1].cleaned
  /\ MemCount = MaxStores
  /\ lastOp.op = "Store" /\ lastOp.err = "already exists"

\* the base64 text of the byte strings 55, 55 AA and 55 AA FF
KnownBase64 ==
  <<<<"V", "Q", "=", "=">>, <<"V", "a", "o", "=">>, <<"V", "a", "r", "/">>>>

\* C36: MemoryStorage keeps the encodings in the order of the Store calls: a
\* successful Store appends the base64 text of its data and returns it; what
\* GetImages returns is that list; GetImageData of the string Store returned
\* for a non-empty d is d; and a write into a list GetImages returned leaves
\* the stored images, hence what GetImages returns next, as they were.
C36_MemoryRoundTrip ==
  /\ [](/\ lastOp.op = "GetImages" => lastOp.ret.items = ms
        /\ lastOp.op = "GetImageData" =>
             \A d \in MemData : (d # <<>> /\ lastOp.arg = EncodeToStringOf[d]) =>
                                  (lastOp.err = "nil" /\ lastOp.ret = d)
        /\ \A k \in 1..Len(ms) : \E d \in MemData : d # <<>> /\ ms[k] = EncodeToStringOf[d]
        /\ \A n \in 1..3 : EncodeToStringOf[[i \in 1..n |-> (i * 85) % 256]] = KnownBase64[n])
  /\ [][ /\ (lastOp' # lastOp /\ lastOp'.op = "MemStore" /\ lastOp'.err = "nil") =>
              /\ lastOp'.ret = EncodeToStringOf[lastOp'.data]
              /\ ms' = Append(ms, lastOp'.ret)
         /\ (lastOp.op = "GetImages" /\ lastOp'.op = "WriteReturned") =>
              /\ ms' = ms
              /\ lastOp'.ret.items # ms']_vars

\* two images stored in order, listed, and the first entry of the returned
\* list overwritten by the caller
C36_Witness ==
  /\ scenario = "memory"
  /\ ms = <<KnownBase64[1], KnownBase64[2]>>
  /\ lastOp.op = "WriteReturned"
  /\ lastOp.ret.items = <<B64_written, KnownBase64[2]>>

\* the data of a stored image recovered from the string Store returned
C36_RoundTripWitness ==
  /\ scenario = "memory"
  /\ lastOp.op = "GetImageData"
  /\ lastOp.arg = KnownBase64[3]
  /\ lastOp.ret = <<85, 170, 255>>
  /\ KnownBase64[3] \in Range(ms)

\* the two Store calls overlapped in time
Overlapped == \E c \in Callers : proc[c].overlap
\* the call of c has returned a path
Returned(c) == proc[c].pc = "done" /\ proc[c].ret # <<>>

\* C37: unique naming and overwrite protection hold when the two Store calls
\* on an instance without force do not overlap: a call that returned a path
\* has its data in that file and the path in the tracked list, after a
\* success the other call is not refused, and two successes have different
\* paths, two files and Count() = 2. (That they fail when the calls overlap
\* is the state C37_Witness, which is reachable.)
C37_SerializedStoresSafe ==
  (scenario = "race" /\ ~Overlapped) =>
    /\ \A c \in Callers : Returned(c) =>
         /\ proc[c].ret \in DOMAIN fs
         /\ fs[proc[c].ret] = proc[c].data
         /\ \E k \in 1..DiskCount(1) : ds[1].files[k] = proc[c].ret
         /\ \A o \in Callers : proc[o].err # "already exists"
    /\ (Returned(1) /\ Returned(2)) =>
         /\ proc[1].ret # proc[2].ret
         /\ DiskCount(1) = 2
         /\ Cardinality(DOMAIN fs) = 2

\* both calls read index 0, both passed the existence check for img-01, both
\* wrote it and both returned it: Count() is 2, one file exists and it holds
\* the data of the second writer only
C37_Witness ==
  /\ scenario = "race"
  /\ ~ds[1].force
  /\ Returned(1) /\ Returned(2)
  /\ proc[1].ret = proc[2].ret
  /\ proc[1].data # proc[2].data
  /\ DiskCount(1) = 2
  /\ ds[1].files[1] = ds[1].files[2]
  /\ Cardinality(DOMAIN fs) = 1
  /\ fs[proc[1].ret] = proc[2].data

\* the unsynchronized append can also lose one of the two paths
C37_LostAppend ==
  /\ scenario = "race"
  /\ Returned(1) /\ Returned(2)
  /\ DiskCount(1) = 1

\* ------------------------------------------------------------------- C38
\* the words of the denylist as the claim lists them
DenylistWords == Denylisted \cup {S_sus4}
HasDenylistWord == [prompt \in {SanitizePromptOf[p] : p \in SendPrompts} |->
                     \E w \in DenylistWords : Contains(ToLower(prompt), w)]
CalledClaude == InStorage /\ run.pc = "done" /\ run.claude \in {"executed", "failed"}

\* C38: whenever the run reaches ExecuteClaude, the prompt it hands over,
\* SanitizePrompt(sendPrompt), contains none of rm -rf, sudo, eval(, exec(,
\* $( and the backtick.
C38_SanitizedPromptClean ==
  CalledClaude => ~HasDenylistWord[run.prompt]

\* a run given --send "use sudo" that executed Claude with that very prompt
C38_Witness ==
  /\ InStorage
  /\ run.pc = "done"
  /\ run.claude = "executed"
  /\ run.sendPrompt = P_sudoLast
  /\ run.prompt = P_sudoLast
  /\ Contains(run.prompt, S_sudo)

\* ------------------------------------------------------------------- C39
Trimmed(s) == s = <<>> \/ (~IsSpace(s[1]) /\ ~IsSpace(s[Len(s)]))

\* C39: for every input list, entries of whitespace only included, the list
\* deduplicateURLs returns holds no empty string, none of its entries has
\* leading or trailing whitespace, and no two of its entries are equal.
C39_TrimmedNoEmpties ==
  lastOp.op = "deduplicateURLs" =>
    /\ \A i \in 1..Len(lastOp.ret) : lastOp.ret[i] # <<>>
    /\ \A i \in 1..Len(lastOp.ret) : Trimmed(lastOp.ret[i])
    /\ \A i, j \in 1..Len(lastOp.ret) : i # j => lastOp.ret[i] # lastOp.ret[j]

\* what the code keeps of it: every returned entry is trimmed, no two are
\* equal, and the empty string is returned exactly when the input has an
\* entry of whitespace only
C39_TrimmedDistinct ==
  lastOp.op = "deduplicateURLs" =>
    /\ \A i \in 1..Len(lastOp.ret) : Trimmed(lastOp.ret[i])
    /\ \A i, j \in 1..Len(lastOp.ret) : i # j => lastOp.ret[i] # lastOp.ret[j]
    /\ (\E i \in 1..Len(lastOp.ret) : lastOp.ret[i] = <<>>)
         <=> (\E k \in 1..Len(lastOp.urls) :
                lastOp.urls[k] # <<>> /\ TrimSpace(lastOp.urls[k]) = <<>>)

\* a list with an entry of whitespace only between an empty entry and a
\* padded URL: the call returns the empty string and the trimmed URL
C39_Witness ==
  /\ lastOp.op = "deduplicateURLs"
  /\ lastOp.urls = <<<<>>, E_space, E_padded>>
  /\ lastOp.ret = <<<<>>, U_b>>
====
